---- MODULE Spec2Model ----
(***************************************************************************)
(* A model of the quantitative analytics engine of the correlation        *)
(* heatmap system: the pairs-trading backtest, the decoupling detector,   *)
(* the FIASS scorer, the spanning tree builder, the correlation            *)
(* calculator, the all-pairs sweeps, the backtest activity, the price      *)
(* table normaliser, the H3 resolution and the momentum and mean-reversion *)
(* backtests.  Each component is a pure computation; it is modelled as a   *)
(* small state machine that draws its inputs in its initial state and     *)
(* then runs the code's steps.  Every component has its own specification *)
(* (SpecBacktest, SpecDecoupling, ...); the variables of the other         *)
(* components are idle in it.                                              *)
(*                                                                         *)
(* Floating point numbers are modelled by exact scaled integers and        *)
(* rationals; NaN stands for a not-a-number / missing value.               *)
(***************************************************************************)
EXTENDS Integers, Sequences, FiniteSets, TLC

VARIABLES
    \* ---- BacktestEngine.run_pairs_trading_backtest
    price_data_a,       \* close column of the first table, one entry per index label
    price_data_b,       \* close column of the second table, same labels
    aligned,            \* the rows of `aligned`, as (price_a, price_b)
    spread_sum,         \* n * spread.mean()
    spread_ssd,         \* n^2 * (n - 1) * spread.std()^2
    entry_threshold,    \* in tenths
    exit_threshold,     \* in tenths
    positions,          \* the list `positions`
    current_position,   \* 0 = no position, 1 = long spread, -1 = short spread
    total_trades,
    index_kind,         \* what the index of the two tables holds: "integers" or "dates"
    aligned_index,      \* the index labels of the rows of `aligned`
    strategy_returns,   \* the series `strategy_returns`: label and value, in index order
    bt_pc,
    \* ---- DecouplingDetector.detect_decoupling
    stored,             \* the pair's rows of the correlations table (values in hundredths)
    threshold,          \* in hundredths
    correlations,       \* what the repository returned
    correlation_series, \* the values sorted by timestamp
    correlation_change, \* historical_corr - recent_corr, a fraction
    dd_result,
    dd_pc,
    \* ---- FIASSCalculator
    fiass_in,           \* the call: the function and its arguments
    fiass_out,          \* the score it returned, a fraction
    fiass_pc,
    \* ---- SpanningTreeBuilder
    records,            \* the supplied correlation records
    min_correlation,    \* in tenths
    G,                  \* the graph under construction
    mst,                \* what build_tree returned
    structure,          \* what get_tree_structure returned
    tree_i,             \* the record the loop of build_tree is at
    tree_pc,
    \* ---- CorrelationCalculator
    series_a,           \* index label -> value, NaN for a missing value
    series_b,
    method,             \* "pearson": calculate_pearson, "spearman": calculate_spearman
    corr_aligned,       \* the rows of `aligned`
    coefficient,        \* what pearsonr / spearmanr returned: "float" or "nan"
    coefficient_calls,  \* the calls of pearsonr / spearmanr so far
    corr_result,
    corr_pc,
    \* ---- the all-pairs sweeps
    sweep,              \* "activity", "script" or "heatmap"
    pair_order,         \* the pairs in the order the loops visit them
    price_data,         \* symbol -> what its price table is like
    pearson_of,         \* the Pearson coefficient (tenths) of two usable tables
    sweep_min_correlation, \* in tenths
    sweep_i,            \* the pair the loop is at
    sweep_correlations, \* the list `correlations` / `correlation_pairs`
    attempted,          \* the pairs whose computation was entered, in order
    log_records,        \* what was printed or logged
    sweep_pc,
    \* ---- run_backtest_activity
    instrument_pair,    \* the two symbols of the request
    fetched_prices,     \* the symbols fetch_historical_prices returned a table for
    strategy,
    backtest_calls,     \* the backtest functions of the engine called so far
    results,            \* what the engine returned
    run_result,         \* what the activity returned or raised
    run_pc,
    \* ---- DataFetcher._normalize_dataframe
    norm_df,            \* the table: its columns (name, values) and its index
    norm_result,        \* the table returned, or the error raised
    norm_pc,
    \* ---- H3Manager.correlation_to_h3_index
    h3_correlation,     \* in hundredths, or NaN
    h3_requested,       \* the argument `resolution`: None or a resolution
    h3_resolution,      \* the resolution the index is computed at
    h3_pc,
    \* ---- BacktestEngine.run_momentum_backtest and run_mean_reversion_backtest
    backtest,           \* "momentum" or "mean_reversion"
    sig_price_data,     \* the (close_a, close_b) rows of the two tables
    lookback_period,
    sig_entry_threshold, \* in tenths
    sig_aligned,        \* the rows of `aligned`
    signals,            \* the series `signals`
    sig_total_trades,
    sig_strategy_returns, \* the series `strategy_returns`, << >> for NaN
    sig_pc,
    \* ---- the later components
    roll_series_a,         \* series_a of calculate_rolling_correlation, a value or NaN per label
    roll_series_b,         \* series_b
    roll_window,           \* window
    roll_method,           \* method
    roll_aligned,          \* the rows of `aligned`
    rolling_corr,          \* the series returned or the error raised
    roll_pc,               \* position in calculate_rolling_correlation
    h3_indices,            \* the list passed to find_clusters
    min_correlations,      \* the minimum count
    cluster_counts,        \* the dict cluster_counts: (key, count) in insertion order
    clusters,              \* the list `clusters`
    cluster_i,             \* position of the running loop
    cluster_pc,            \* position in find_clusters
    coord_pair,            \* (instrument_a, instrument_b) of correlation_to_h3_index
    coord_correlation,     \* correlation, in hundredths
    pair_hash,             \* the first 16 hex digits of pair_hash, as four 16-bit words
    lat,                   \* in hundredths of a degree
    lng,                   \* in hundredths of a degree
    geo_to_h3_args,        \* the (lat, lng) handed to h3.geo_to_h3
    coord_pc,              \* position in correlation_to_h3_index
    temporal_workflows,    \* the Temporal server: workflow id -> task queue and status
    redis_keys,            \* Redis: key -> value
    workflow_id,           \* workflow_id of the running start_backtest call, as its parts between hyphens
    start_response,        \* what start_backtest answered
    start_calls,           \* the start_backtest calls made
    start_pc,              \* position in start_backtest
    worker_running,        \* the worker process polls its task queue
    get_response,          \* what get_backtest_result answered
    active_connections,    \* client id -> websocket
    subscriptions,         \* the dict client id -> set of channels, as its entries in insertion order
    connect_count,         \* the connect calls made, per client id
    last_call,             \* the ConnectionManager call made last
    bc_channel,            \* channel of the running broadcast
    bc_pc,                 \* idle, sending (suspended at a send), done or error
    bc_i,                  \* the dict iterator's next entry
    bc_len,                \* the dict iterator's count of entries left
    bc_used,               \* len(subscriptions) when the iterator was made
    sent,                  \* the client ids the running broadcast has sent to, in order
    fetch_symbols,         \* the symbols argument of fetch_historical_prices
    price_cache,           \* Redis: symbol of the cache key -> stored text
    has_redis,             \* whether the fetcher was given a Redis client
    fetch_i,               \* position of the loop over the symbols
    fetch_pc,              \* loop, sleep (waiting to retry) or returned
    fetch_results,         \* the results dict, symbol -> table
    fetch_log              \* per symbol handled: cache outcome and what each upstream request gave

\* the variables of the later components
rollVars == << roll_series_a, roll_series_b, roll_window, roll_method, roll_aligned, rolling_corr, roll_pc >>
clusterVars == << h3_indices, min_correlations, cluster_counts, clusters, cluster_i, cluster_pc >>
coordVars == << coord_pair, coord_correlation, pair_hash, lat, lng, geo_to_h3_args, coord_pc >>
wfVars == << temporal_workflows, redis_keys, workflow_id, start_response, start_calls, start_pc, worker_running, get_response >>
wsVars == << active_connections, subscriptions, connect_count, last_call, bc_channel, bc_pc, bc_i, bc_len, bc_used, sent >>
fetchVars == << fetch_symbols, price_cache, has_redis, fetch_i, fetch_pc, fetch_results, fetch_log >>
lateVars == << rollVars, clusterVars, coordVars, wfVars, wsVars, fetchVars >>

vars == << price_data_a, price_data_b, aligned, spread_sum, spread_ssd, entry_threshold, exit_threshold, positions,
           current_position, total_trades, index_kind, aligned_index, strategy_returns, bt_pc,
           stored, threshold, correlations, correlation_series, correlation_change,
           dd_result, dd_pc,
           fiass_in, fiass_out, fiass_pc,
           records, min_correlation, G, mst, structure, tree_i, tree_pc,
           series_a, series_b, method, corr_aligned, coefficient, coefficient_calls,
           corr_result, corr_pc,
           sweep, pair_order, price_data, pearson_of, sweep_min_correlation, sweep_i,
           sweep_correlations, attempted, log_records, sweep_pc,
           instrument_pair, fetched_prices, strategy, backtest_calls, results, run_result, run_pc,
           norm_df, norm_result, norm_pc,
           h3_correlation, h3_requested, h3_resolution, h3_pc,
           backtest, sig_price_data, lookback_period, sig_entry_threshold, sig_aligned, signals,
           sig_total_trades, sig_strategy_returns, sig_pc, lateVars >>

btVars   == << price_data_a, price_data_b, aligned, spread_sum, spread_ssd, entry_threshold, exit_threshold, positions,
               current_position, total_trades, index_kind, aligned_index, strategy_returns, bt_pc >>
ddVars   == << stored, threshold, correlations, correlation_series, correlation_change,
               dd_result, dd_pc >>
fiassVars == << fiass_in, fiass_out, fiass_pc >>
treeVars == << records, min_correlation, G, mst, structure, tree_i, tree_pc >>
corrVars == << series_a, series_b, method, corr_aligned, coefficient, coefficient_calls,
               corr_result, corr_pc >>
coreVars == << btVars, ddVars, fiassVars, treeVars, corrVars >>
sweepVars == << sweep, pair_order, price_data, pearson_of, sweep_min_correlation, sweep_i,
                sweep_correlations, attempted, log_records, sweep_pc >>
\* the components after the first five, and what each of them leaves alone
runVars == << instrument_pair, fetched_prices, strategy, backtest_calls, results, run_result, run_pc >>
normVars == << norm_df, norm_result, norm_pc >>
h3Vars == << h3_correlation, h3_requested, h3_resolution, h3_pc >>
sigVars == << backtest, sig_price_data, lookback_period, sig_entry_threshold, sig_aligned, signals,
              sig_total_trades, sig_strategy_returns, sig_pc >>
midVars == << sweepVars, runVars, normVars, h3Vars, sigVars >>
extVars == << midVars, lateVars >>
sweepFrame == << coreVars, runVars, normVars, h3Vars, sigVars, lateVars >>
runFrame == << coreVars, sweepVars, normVars, h3Vars, sigVars, lateVars >>
normFrame == << coreVars, sweepVars, runVars, h3Vars, sigVars, lateVars >>
h3Frame == << coreVars, sweepVars, runVars, normVars, sigVars, lateVars >>
sigFrame == << coreVars, sweepVars, runVars, normVars, h3Vars, lateVars >>

\* what each of the later components leaves alone
rollFrame == << coreVars, midVars, clusterVars, coordVars, wfVars, wsVars, fetchVars >>
clusterFrame == << coreVars, midVars, rollVars, coordVars, wfVars, wsVars, fetchVars >>
coordFrame == << coreVars, midVars, rollVars, clusterVars, wfVars, wsVars, fetchVars >>
wfFrame == << coreVars, midVars, rollVars, clusterVars, coordVars, wsVars, fetchVars >>
wsFrame == << coreVars, midVars, rollVars, clusterVars, coordVars, wfVars, fetchVars >>
fetchFrame == << coreVars, midVars, rollVars, clusterVars, coordVars, wfVars, wsVars >>

\* a not-a-number / missing value, kept apart from every number of the model
NaN == -9999
None == "None"
\* no answer yet
NoResponse == [ pending |-> TRUE ]

\* ---- generic helpers -----------------------------------------------------

RECURSIVE SumSeq(_)
SumSeq(s) == IF s = << >> THEN 0 ELSE Head(s) + SumSeq(Tail(s))

\* a * sqrt(p) > b * sqrt(q), for integers a, b and naturals p, q
SqGt(a, p, b, q) ==
    IF a >= 0
    THEN IF b >= 0 THEN a * a * p > b * b * q
                   ELSE (a * a * p > 0) \/ (b * b * q > 0)
    ELSE IF b >= 0 THEN FALSE
                   ELSE a * a * p < b * b * q

\* ---- idle values of the components a specification does not run ----------

IdleBacktest ==
    /\ price_data_a = << >> /\ price_data_b = << >>
    /\ aligned = << >> /\ spread_sum = 0 /\ spread_ssd = 0
    /\ entry_threshold = 0 /\ exit_threshold = 0
    /\ positions = << >> /\ current_position = 0
    /\ total_trades = None /\ bt_pc = "idle"
    /\ index_kind = None /\ aligned_index = << >> /\ strategy_returns = << >>

IdleDecoupling ==
    /\ stored = {} /\ threshold = 0 /\ correlations = << >>
    /\ correlation_series = << >> /\ correlation_change = None
    /\ dd_result = None /\ dd_pc = "idle"

IdleFiass ==
    /\ fiass_in = None /\ fiass_out = None /\ fiass_pc = "idle"

IdleTree ==
    /\ records = << >> /\ min_correlation = 0
    /\ G = << >> /\ mst = << >> /\ structure = << >> /\ tree_i = 1 /\ tree_pc = "idle"

IdleCorr ==
    /\ series_a = << >> /\ series_b = << >> /\ method = None
    /\ corr_aligned = << >> /\ coefficient = << >> /\ coefficient_calls = 0
    /\ corr_result = None /\ corr_pc = "idle"

IdleCore == IdleBacktest /\ IdleDecoupling /\ IdleFiass /\ IdleTree /\ IdleCorr

IdleSweep ==
    /\ sweep = None /\ pair_order = << >> /\ price_data = << >> /\ pearson_of = << >>
    /\ sweep_min_correlation = 0 /\ sweep_i = 1 /\ sweep_correlations = << >>
    /\ attempted = << >> /\ log_records = << >> /\ sweep_pc = "idle"

IdleRun ==
    /\ instrument_pair = << >> /\ fetched_prices = {} /\ strategy = None
    /\ backtest_calls = << >> /\ results = None /\ run_result = None /\ run_pc = "idle"

IdleNorm == norm_df = None /\ norm_result = None /\ norm_pc = "idle"

IdleH3 == h3_correlation = 0 /\ h3_requested = None /\ h3_resolution = None /\ h3_pc = "idle"

IdleSig ==
    /\ backtest = None /\ sig_price_data = << >> /\ lookback_period = 0
    /\ sig_entry_threshold = 0 /\ sig_aligned = << >> /\ signals = << >>
    /\ sig_total_trades = None /\ sig_strategy_returns = << >> /\ sig_pc = "idle"

IdleMid == IdleSweep /\ IdleRun /\ IdleNorm /\ IdleH3 /\ IdleSig

\* the idle values of the later components
IdleRoll ==
    /\ roll_series_a = << >> /\ roll_series_b = << >> /\ roll_window = 0 /\ roll_method = None
    /\ roll_aligned = << >> /\ rolling_corr = None /\ roll_pc = "idle"
IdleCluster ==
    /\ h3_indices = << >> /\ min_correlations = 0 /\ cluster_counts = << >>
    /\ clusters = << >> /\ cluster_i = 1 /\ cluster_pc = "idle"
IdleCoord ==
    /\ coord_pair = << >> /\ coord_correlation = 0 /\ pair_hash = << >> /\ lat = 0 /\ lng = 0
    /\ geo_to_h3_args = << >> /\ coord_pc = "idle"
IdleWf ==
    /\ temporal_workflows = << >> /\ redis_keys = << >> /\ workflow_id = << >>
    /\ start_response = NoResponse /\ start_calls = 0 /\ start_pc = "idle"
    /\ worker_running = FALSE /\ get_response = NoResponse
IdleWs ==
    /\ active_connections = << >> /\ subscriptions = << >> /\ connect_count = << >>
    /\ last_call = NoResponse /\ bc_channel = None /\ bc_pc = "idle" /\ bc_i = 1 /\ bc_len = 0
    /\ bc_used = 0 /\ sent = << >>
IdleFetch ==
    /\ fetch_symbols = << >> /\ price_cache = << >> /\ has_redis = FALSE /\ fetch_i = 1
    /\ fetch_pc = "returned" /\ fetch_results = << >> /\ fetch_log = << >>
IdleLate == IdleRoll /\ IdleCluster /\ IdleCoord /\ IdleWf /\ IdleWs /\ IdleFetch
IdleRollFrame == IdleCore /\ IdleMid /\ IdleCluster /\ IdleCoord /\ IdleWf /\ IdleWs /\ IdleFetch
IdleClusterFrame == IdleCore /\ IdleMid /\ IdleRoll /\ IdleCoord /\ IdleWf /\ IdleWs /\ IdleFetch
IdleCoordFrame == IdleCore /\ IdleMid /\ IdleRoll /\ IdleCluster /\ IdleWf /\ IdleWs /\ IdleFetch
IdleWfFrame == IdleCore /\ IdleMid /\ IdleRoll /\ IdleCluster /\ IdleCoord /\ IdleWs /\ IdleFetch
IdleWsFrame == IdleCore /\ IdleMid /\ IdleRoll /\ IdleCluster /\ IdleCoord /\ IdleWf /\ IdleFetch
IdleFetchFrame == IdleCore /\ IdleMid /\ IdleRoll /\ IdleCluster /\ IdleCoord /\ IdleWf /\ IdleWs

IdleExt == IdleMid /\ IdleLate
IdleSweepFrame == IdleCore /\ IdleRun /\ IdleNorm /\ IdleH3 /\ IdleSig /\ IdleLate
IdleRunFrame == IdleCore /\ IdleSweep /\ IdleNorm /\ IdleH3 /\ IdleSig /\ IdleLate
IdleNormFrame == IdleCore /\ IdleSweep /\ IdleRun /\ IdleH3 /\ IdleSig /\ IdleLate
IdleH3Frame == IdleCore /\ IdleSweep /\ IdleRun /\ IdleNorm /\ IdleSig /\ IdleLate
IdleSigFrame == IdleCore /\ IdleSweep /\ IdleRun /\ IdleNorm /\ IdleH3 /\ IdleLate

(***************************************************************************)
(* BacktestEngine.run_pairs_trading_backtest                               *)
(***************************************************************************)

\* the longest sample
MaxLen == 6

\* the (close_a, close_b) rows the two tables are drawn from; NaN is a label
\* that one table lacks
PriceRows == { <<1, 5>>, <<3, 3>>, <<5, 1>>, <<NaN, 3>> }
EntryThresholds == { 10, 20 }
ExitThresholds == { 5 }

\* pd.DataFrame({"price_a": ..., "price_b": ...}).dropna(): the rows with a
\* value on both sides, in index order
RECURSIVE DropNa(_, _, _)
DropNa(a, b, k) ==
    IF k > Len(a) THEN << >>
    ELSE IF a[k] # NaN /\ b[k] # NaN
         THEN << <<a[k], b[k]>> >> \o DropNa(a, b, k + 1)
         ELSE DropNa(a, b, k + 1)

\* the index label of the k-th row of the supplied tables: 0, 1, ... for the
\* default integer index, a date (a label no integer equals) otherwise
IndexKinds == { "integers", "dates" }

IndexLabel(kind, k) == IF kind = "integers" THEN k - 1 ELSE 1000 + k

\* the index of the frame after dropna()
RECURSIVE DropNaIndex(_, _, _, _)
DropNaIndex(a, b, k, kind) ==
    IF k > Len(a) THEN << >>
    ELSE IF a[k] # NaN /\ b[k] # NaN
         THEN << IndexLabel(kind, k) >> \o DropNaIndex(a, b, k + 1, kind)
         ELSE DropNaIndex(a, b, k + 1, kind)

\* returns_a - returns_b at the t-th row of the frame (t >= 2), as << numerator, denominator >>
ReturnDifference(al, t) ==
    << al[t][1] * al[t - 1][2] - al[t][2] * al[t - 1][1], al[t - 1][1] * al[t - 1][2] >>

RECURSIVE SortedLabels(_)
SortedLabels(labels) ==
    IF labels = {} THEN << >>
    ELSE LET least == CHOOSE x \in labels : \A y \in labels : x <= y
         IN  << least >> \o SortedLabels(labels \ { least })

\* pd.Series(positions[:-1]) * (returns_a[1:] - returns_b[1:]): the product of
\* two series pairs the values of equal index label; the first series has
\* the labels 0 .. len - 2, the second the labels of the frame but the
\* first; a label that only one of them has gives NaN (the empty value)
StrategyReturns(pos, al, idx) ==
    LET left   == { k - 1 : k \in 1..(Len(pos) - 1) }
        right  == { idx[k] : k \in 2..Len(al) }
        labels == SortedLabels(left \cup right)
        RowOf(label) == CHOOSE k \in 2..Len(al) : idx[k] = label
    IN  [ j \in DOMAIN labels |->
            [ label |-> labels[j],
              value |-> IF labels[j] \in left /\ labels[j] \in right
                        THEN << pos[labels[j] + 1] * ReturnDifference(al, RowOf(labels[j]))[1],
                                ReturnDifference(al, RowOf(labels[j]))[2] >>
                        ELSE << >> ] ]

\* spread = aligned["price_a"] - aligned["price_b"]
SpreadOf(al) == [ k \in 1..Len(al) |-> al[k][1] - al[k][2] ]

\* n^2 * sum of the squared deviations of sp from its mean
SumSqDev(sp) ==
    LET n == Len(sp)
        total == SumSeq(sp)
    IN  SumSeq([ k \in 1..n |-> (n * sp[k] - total) * (n * sp[k] - total) ])

\* n * (spread[k] - spread_mean)
Deviation(k) == Len(aligned) * (aligned[k][1] - aligned[k][2]) - spread_sum

\* spread.std() is NaN for one row and 0 for a constant spread; both make
\* every z-score NaN
ZIsNaN == Len(aligned) < 2 \/ spread_ssd = 0

\* z_score[k] > t / 10, where z = (spread - mean) / std with the sample
\* standard deviation (ddof = 1); a comparison with NaN is false
ZGreater(k, t) ==
    /\ ~ZIsNaN
    /\ SqGt(10 * Deviation(k), Len(aligned) - 1, t, spread_ssd)

\* z_score[k] < t / 10
ZLess(k, t) ==
    /\ ~ZIsNaN
    /\ SqGt(t, spread_ssd, 10 * Deviation(k), Len(aligned) - 1)

\* a sign slip in the exit of a long position
NextPositionSignSlip(pos, k) ==
    IF pos = 0
    THEN IF ZGreater(k, entry_threshold) THEN -1
         ELSE IF ZLess(k, -entry_threshold) THEN 1
         ELSE 0
    ELSE IF pos = 1
    THEN IF ZGreater(k, exit_threshold) THEN 0 ELSE 1
    ELSE IF ZLess(k, exit_threshold) THEN 0 ELSE -1

\* the body of the loop over z_score: the new current_position
NextPosition(pos, k) ==
    IF pos = 0
    THEN IF ZGreater(k, entry_threshold) THEN -1
         ELSE IF ZLess(k, -entry_threshold) THEN 1
         ELSE 0
    ELSE IF pos = 1
    THEN IF ZGreater(k, -exit_threshold) THEN 0 ELSE 1
    ELSE IF ZLess(k, exit_threshold) THEN 0 ELSE -1

\* len([i for i in range(1, len(positions)) if positions[i] != positions[i-1]])
CountTrades(p) ==
    Cardinality({ k \in 2..Len(p) : p[k] # p[k - 1] })

InitBacktest ==
    /\ \E n \in 1..MaxLen :
         \E rows \in [1..n -> PriceRows] :
            /\ price_data_a = [ k \in 1..n |-> rows[k][1] ]
            /\ price_data_b = [ k \in 1..n |-> rows[k][2] ]
    /\ entry_threshold \in EntryThresholds
    /\ exit_threshold \in ExitThresholds
    /\ aligned = << >> /\ spread_sum = 0 /\ spread_ssd = 0
    /\ positions = << >>
    /\ current_position = 0
    /\ total_trades = None
    /\ index_kind \in IndexKinds
    /\ aligned_index = << >>
    /\ strategy_returns = << >>
    /\ bt_pc = "align"
    /\ IdleDecoupling /\ IdleFiass /\ IdleTree /\ IdleCorr /\ IdleExt

\* align the two price series, the spread and its mean and standard deviation
ZScore ==
    /\ bt_pc = "align"
    /\ LET al == DropNa(price_data_a, price_data_b, 1)
       IN  /\ aligned' = al
           /\ spread_sum' = SumSeq(SpreadOf(al))
           /\ spread_ssd' = SumSqDev(SpreadOf(al))
    /\ aligned_index' = DropNaIndex(price_data_a, price_data_b, 1, index_kind)
    /\ bt_pc' = "loop"
    /\ UNCHANGED << price_data_a, price_data_b, entry_threshold, exit_threshold,
                    positions, current_position, total_trades, index_kind, strategy_returns >>
    /\ UNCHANGED << ddVars, fiassVars, treeVars, corrVars, extVars >>

\* one iteration of `for i, z in enumerate(z_score)`
SignalStep ==
    /\ bt_pc = "loop"
    /\ Len(positions) < Len(aligned)
    /\ LET new == NextPosition(current_position, Len(positions) + 1)
       IN  /\ current_position' = new
           /\ positions' = Append(positions, new)
    /\ UNCHANGED << price_data_a, price_data_b, aligned, spread_sum, spread_ssd,
                    entry_threshold, exit_threshold, total_trades, index_kind, aligned_index,
                    strategy_returns, bt_pc >>
    /\ UNCHANGED << ddVars, fiassVars, treeVars, corrVars, extVars >>

\* the loop is over: the metrics
Metrics ==
    /\ bt_pc = "loop"
    /\ Len(positions) = Len(aligned)
    /\ strategy_returns' = StrategyReturns(positions, aligned, aligned_index)
    /\ total_trades' = CountTrades(positions)
    /\ bt_pc' = "done"
    /\ UNCHANGED << price_data_a, price_data_b, aligned, spread_sum, spread_ssd,
                    entry_threshold, exit_threshold, positions, current_position,
                    index_kind, aligned_index >>
    /\ UNCHANGED << ddVars, fiassVars, treeVars, corrVars, extVars >>

NextBacktest == ZScore \/ SignalStep \/ Metrics

SpecBacktest == InitBacktest /\ [][NextBacktest]_vars

\* ---- the claims about the pairs-trading state machine ---------------------

Flat == 0
LongSpread == 1
ShortSpread == -1

\* the position before period k: flat before the first period
PositionBefore(k) == IF k = 1 THEN Flat ELSE positions[k - 1]

\* C1: the position starts flat and every recorded position follows from the
\* previous one and the period's z-score by the table: flat -> short_spread iff
\* z > entry_threshold; flat -> long_spread iff z < -entry_threshold;
\* long_spread -> flat iff z > -exit_threshold; short_spread -> flat iff
\* z < exit_threshold; otherwise unchanged.  So no period moves the position
\* between long_spread and short_spread.
C1_PositionTable ==
    /\ (bt_pc = "align" => current_position = Flat /\ positions = << >>)
    /\ \A k \in 1..Len(positions) :
         LET prev == PositionBefore(k)
             new == positions[k]
         IN  /\ prev = Flat =>
                  /\ new \in { Flat, ShortSpread, LongSpread }
                  /\ (new = ShortSpread <=> ZGreater(k, entry_threshold))
                  /\ (new = LongSpread <=> ZLess(k, -entry_threshold))
             /\ prev = LongSpread =>
                  /\ new \in { LongSpread, Flat }
                  /\ (new = Flat <=> ZGreater(k, -exit_threshold))
             /\ prev = ShortSpread =>
                  /\ new \in { ShortSpread, Flat }
                  /\ (new = Flat <=> ZLess(k, exit_threshold))
             /\ ~(prev = LongSpread /\ new = ShortSpread)
             /\ ~(prev = ShortSpread /\ new = LongSpread)

\* a finished run that was short, went flat, went long and went flat again
C1_Witness ==
    /\ bt_pc = "done"
    /\ \E j, k \in 1..Len(positions) - 1 :
         /\ positions[j] = ShortSpread /\ positions[j + 1] = Flat
         /\ positions[k] = LongSpread /\ positions[k + 1] = Flat

\* the transitions the state machine made, the one out of the initial flat
\* state included
StateTransitions ==
    Cardinality({ k \in 1..Len(positions) : positions[k] # PositionBefore(k) })

\* C2: total_trades equals the number of state transitions (entries plus
\* exits) the state machine made, starting from its initial flat state.
C2_TradesAreTransitions ==
    bt_pc = "done" => total_trades = StateTransitions

\* the entries of strategy_returns at the index label of the t-th row
ReturnsAt(t) ==
    { j \in DOMAIN strategy_returns : strategy_returns[j].label = aligned_index[t] }

\* C18: for every period after the first, the strategy return at that
\* period's index label is the position recorded one period earlier times
\* (returnA - returnB) of the period, for integer and for date labels alike.
C18_OnePeriodLag ==
    bt_pc = "done" =>
        \A t \in 2..Len(aligned) :
            /\ ReturnsAt(t) # {}
            /\ \A j \in ReturnsAt(t) :
                  /\ strategy_returns[j].value # << >>
                  /\ strategy_returns[j].value[1] * ReturnDifference(aligned, t)[2]
                        = positions[t - 1] * ReturnDifference(aligned, t)[1]
                             * strategy_returns[j].value[2]

(***************************************************************************)
(* DecouplingDetector.detect_decoupling                                    *)
(***************************************************************************)

\* fractions <<numerator, denominator>> with a positive denominator
Frac(n, d) == << n, d >>
FracSub(x, y) == << x[1] * y[2] - y[1] * x[2], x[2] * y[2] >>
FracLt(x, y) == x[1] * y[2] < y[1] * x[2]
FracEq(x, y) == x[1] * y[2] = y[1] * x[2]
FracMin(x, y) == IF FracLt(y, x) THEN y ELSE x

\* the minimum history, and the size of the recent window
MinObservations == 30
RecentWindow == 10

\* the longest history
MaxObs == 32

HistoricalValues == { 95, 60, 0 }
RecentValues == { 90, 30, -40 }
RecentCounts == { 9, 10, 11 }
Thresholds == { 0, 5, 30, 100 }

\* the rows of `rows` ordered by timestamp (unique per pair: the table's
\* uq_correlation_pair_time), ascending or descending
OrderByTimestamp(rows, descending) ==
    [ i \in 1..Cardinality(rows) |->
        CHOOSE r \in rows :
            Cardinality({ q \in rows : IF descending THEN q.timestamp > r.timestamp
                                                     ELSE q.timestamp < r.timestamp }) = i - 1 ]

\* CorrelationRepository.get_correlations: newest first
GetCorrelations(rows) == OrderByTimestamp(rows, TRUE)

\* pd.Series({corr.timestamp: corr.correlation_value ...}).sort_index()
SortedSeries(corrs) ==
    OrderByTimestamp({ corrs[i] : i \in 1..Len(corrs) }, FALSE)

\* series.tail(k).mean() and series.head(len - k).mean(), as fractions
MeanOf(series, from, to) ==
    Frac(SumSeq([ i \in 1..(to - from + 1) |-> series[from + i - 1].correlation_value ]),
         to - from + 1)
RecentCorr(series) == MeanOf(series, Len(series) - RecentWindow + 1, Len(series))
HistoricalCorr(series) == MeanOf(series, 1, Len(series) - RecentWindow)

\* the length check compares with the wrong bound
TooFewOffByOne(corrs) == Len(corrs) <= MinObservations

\* len(correlations) < 30
TooFew(corrs) == Len(corrs) < MinObservations

\* the gate compares the size of the change, whatever its direction
BelowThresholdAbs(change, thr) ==
    FracLt(IF change[1] < 0 THEN Frac(-change[1], change[2]) ELSE change, Frac(thr, 1))

\* correlation_change < threshold
BelowThreshold(change, thr) == FracLt(change, Frac(thr, 1))

\* LorenzAttractor.detect_decoupling: regime_change_probability =
\* min(1.0, max_distance / threshold), in hundredths, for a positive threshold
RegimeChangeProbability(max_distance, thr) ==
    FracMin(Frac(100, 1), Frac(10000 * max_distance[1], max_distance[2] * thr))

InitDecoupling ==
    /\ \E n \in (MinObservations - 2)..MaxObs :
         \E hv \in HistoricalValues, rv \in RecentValues, k \in RecentCounts :
            stored = { [timestamp |-> t,
                        correlation_value |-> IF t > n - k THEN rv ELSE hv] : t \in 1..n }
    /\ threshold \in Thresholds
    /\ correlations = << >>
    /\ correlation_series = << >>
    /\ correlation_change = None
    /\ dd_result = None
    /\ dd_pc = "fetch"
    /\ IdleBacktest /\ IdleFiass /\ IdleTree /\ IdleCorr /\ IdleExt

\* correlations = await self.correlation_repo.get_correlations(...)
FetchCorrelations ==
    /\ dd_pc = "fetch"
    /\ correlations' = GetCorrelations(stored)
    /\ dd_pc' = "check"
    /\ UNCHANGED << stored, threshold, correlation_series, correlation_change, dd_result >>
    /\ UNCHANGED << btVars, fiassVars, treeVars, corrVars, extVars >>

\* if len(correlations) < 30: return insufficient_data
InsufficientData ==
    /\ dd_pc = "check"
    /\ TooFew(correlations)
    /\ dd_result' = [ decoupling_detected |-> FALSE, reason |-> "insufficient_data" ]
    /\ dd_pc' = "done"
    /\ UNCHANGED << stored, threshold, correlations, correlation_series, correlation_change >>
    /\ UNCHANGED << btVars, fiassVars, treeVars, corrVars, extVars >>

\* the sorted series, the two means and their difference
CorrelationChange ==
    /\ dd_pc = "check"
    /\ ~TooFew(correlations)
    /\ LET series == SortedSeries(correlations)
       IN  /\ correlation_series' = series
           /\ correlation_change' = FracSub(HistoricalCorr(series), RecentCorr(series))
    /\ dd_pc' = "gate"
    /\ UNCHANGED << stored, threshold, correlations, dd_result >>
    /\ UNCHANGED << btVars, fiassVars, treeVars, corrVars, extVars >>

\* if correlation_change < threshold: return not detected
NoSignificantDrop ==
    /\ dd_pc = "gate"
    /\ BelowThreshold(correlation_change, threshold)
    /\ dd_result' = [ decoupling_detected |-> FALSE,
                      correlation_before |-> HistoricalCorr(correlation_series),
                      correlation_after |-> RecentCorr(correlation_series),
                      correlation_change |-> correlation_change ]
    /\ dd_pc' = "done"
    /\ UNCHANGED << stored, threshold, correlations, correlation_series, correlation_change >>
    /\ UNCHANGED << btVars, fiassVars, treeVars, corrVars, extVars >>

\* the rest of the function: the placeholder lorenz_metrics and detected = True
ReportDecoupling ==
    /\ dd_pc = "gate"
    /\ ~BelowThreshold(correlation_change, threshold)
    /\ dd_result' = [ decoupling_detected |-> TRUE,
                      correlation_before |-> HistoricalCorr(correlation_series),
                      correlation_after |-> RecentCorr(correlation_series),
                      correlation_change |-> correlation_change,
                      decoupling_date |->
                          correlation_series[Len(correlation_series)].timestamp,
                      lorenz_metrics |->
                          [ attractor_distance |-> Frac(0, 1),
                            stability_index |-> Frac(0, 1),
                            regime_change_probability |-> correlation_change ] ]
    /\ dd_pc' = "done"
    /\ UNCHANGED << stored, threshold, correlations, correlation_series, correlation_change >>
    /\ UNCHANGED << btVars, fiassVars, treeVars, corrVars, extVars >>

NextDecoupling ==
    \/ FetchCorrelations
    \/ InsufficientData
    \/ CorrelationChange
    \/ NoSignificantDrop
    \/ ReportDecoupling

SpecDecoupling == InitDecoupling /\ [][NextDecoupling]_vars

\* ---- the claims about the decoupling detector ----------------------------

RECURSIVE SumValues(_)
SumValues(rows) ==
    IF rows = {} THEN 0
    ELSE LET r == CHOOSE x \in rows : TRUE
         IN  r.correlation_value + SumValues(rows \ { r })

\* the 10 observations with the latest timestamps, and all earlier ones
LatestObservations ==
    { r \in stored : Cardinality({ q \in stored : q.timestamp > r.timestamp }) < 10 }
EarlierObservations == stored \ LatestObservations

recent_mean == Frac(SumValues(LatestObservations), Cardinality(LatestObservations))
historical_mean == Frac(SumValues(EarlierObservations), Cardinality(EarlierObservations))
MeanDrop == FracSub(historical_mean, recent_mean)

\* C3: with at least 30 observations, if historical_mean - recent_mean is below
\* the threshold the result is detected = false with correlation_before,
\* correlation_after and correlation_change, and without lorenz metrics or a
\* decoupling date; a rise in correlation is never reported as decoupling.
C3_NoDropNotDetected ==
    (dd_pc = "done" /\ Cardinality(stored) >= 30) =>
        /\ FracLt(MeanDrop, Frac(threshold, 1)) =>
              /\ DOMAIN dd_result = { "decoupling_detected", "correlation_before",
                                      "correlation_after", "correlation_change" }
              /\ dd_result.decoupling_detected = FALSE
              /\ FracEq(dd_result.correlation_before, historical_mean)
              /\ FracEq(dd_result.correlation_after, recent_mean)
              /\ FracEq(dd_result.correlation_change, MeanDrop)
        /\ MeanDrop[1] < 0 => dd_result.decoupling_detected = FALSE

\* a history of 30 or more whose correlation rose, reported as not detected
C3_Witness ==
    /\ dd_pc = "done"
    /\ Cardinality(stored) >= 30
    /\ MeanDrop[1] < 0
    /\ "correlation_change" \in DOMAIN dd_result
    /\ dd_result.decoupling_detected = FALSE

\* C4: when the drop passes the first gate, detected equals
\* (regime_change_probability > threshold), where regime_change_probability is
\* the value in lorenz_metrics and equals min(1, max_distance / threshold).
C4_DetectedIsLorenzVerdict ==
    (/\ dd_pc = "done"
     /\ Cardinality(stored) >= 30
     /\ ~FracLt(MeanDrop, Frac(threshold, 1))) =>
        /\ "lorenz_metrics" \in DOMAIN dd_result
        /\ dd_result.decoupling_detected =
              FracLt(Frac(threshold, 1), dd_result.lorenz_metrics.regime_change_probability)
        /\ threshold > 0 =>
              FracEq(dd_result.lorenz_metrics.regime_change_probability,
                     RegimeChangeProbability(dd_result.lorenz_metrics.attractor_distance,
                                             threshold))

\* C5: the result is {detected: false, reason: insufficient_data} if and only
\* if fewer than 30 observations are available; the means and the gates are
\* evaluated only with at least 30 observations.
C5_InsufficientIffUnder30 ==
    /\ dd_pc = "done" =>
          ( (/\ DOMAIN dd_result = { "decoupling_detected", "reason" }
             /\ dd_result.decoupling_detected = FALSE
             /\ dd_result.reason = "insufficient_data")
            <=> Cardinality(stored) < 30 )
    /\ (correlation_series # << >> \/ dd_pc = "gate") => Cardinality(stored) >= 30

\* 29 observations: one short of the minimum
C5_Witness ==
    /\ dd_pc = "done"
    /\ Cardinality(stored) = 29
    /\ DOMAIN dd_result = { "decoupling_detected", "reason" }
    /\ correlation_series = << >>

(***************************************************************************)
(* FIASSCalculator                                                         *)
(***************************************************************************)

RECURSIVE Gcd(_, _)
Gcd(a, b) == IF b = 0 THEN a ELSE Gcd(b, a % b)
Abs(a) == IF a < 0 THEN -a ELSE a

\* the same fraction in lowest terms
Reduce(x) ==
    LET g == Gcd(Abs(x[1]), x[2])
    IN  << x[1] \div g, x[2] \div g >>

FracAdd(x, y) == Reduce(<< x[1] * y[2] + y[1] * x[2], x[2] * y[2] >>)
FracMul(x, y) == Reduce(<< x[1] * y[1], x[2] * y[2] >>)
FracMax(x, y) == IF FracLt(x, y) THEN y ELSE x
FracLe(x, y) == ~FracLt(y, x)

\* component weights, in hundredths
LIQUIDITY_WEIGHT == 30
VOLATILITY_WEIGHT == 20
STABILITY_WEIGHT == 30
MARKET_CAP_WEIGHT == 20

\* max(0.0, min(10.0, x))
Clip(x) == FracMax(Frac(0, 1), FracMin(Frac(10, 1), x))

\* avg_daily_volume in hundred thousands, bid_ask_spread_pct in thousandths,
\* volume_cv in tenths
calculate_liquidity_score(avg_daily_volume, bid_ask_spread_pct, volume_cv) ==
    LET adv_score == FracMin(Frac(10, 1), Frac(avg_daily_volume, 10))
        spread_score ==
            FracMul(Frac(10, 1),
                    FracSub(Frac(1, 1), FracMin(Frac(bid_ask_spread_pct, 10), Frac(1, 1))))
        consistency_score ==
            FracMul(Frac(10, 1),
                    FracSub(Frac(1, 1), FracMin(Frac(volume_cv, 10), Frac(1, 1))))
        liquidity_score ==
            FracAdd(FracAdd(FracMul(adv_score, Frac(4, 10)),
                            FracMul(spread_score, Frac(4, 10))),
                    FracMul(consistency_score, Frac(2, 10)))
    IN  Clip(liquidity_score)

\* realized_volatility in hundredths
calculate_volatility_score(realized_volatility) ==
    IF 15 <= realized_volatility /\ realized_volatility <= 30
    THEN Frac(10, 1)
    ELSE IF realized_volatility < 15
    THEN FracMul(Frac(10, 1), Frac(realized_volatility, 15))
    ELSE FracMax(Frac(0, 1),
                 FracMul(Frac(10, 1),
                         FracSub(Frac(1, 1), Frac(realized_volatility - 30, 30))))

\* correlation_stability in hundredths
calculate_stability_score(correlation_stability) ==
    Clip(FracMul(Frac(10, 1),
                 FracSub(Frac(1, 1), FracMin(Frac(correlation_stability, 10), Frac(1, 1)))))

\* thresholds.get(asset_class, 100_000_000_000), in billions
MarketCapThreshold(asset_class) ==
    CASE asset_class = "crypto" -> 10
      [] asset_class = "equity" -> 100
      [] asset_class = "tech" -> 500
      [] asset_class = "metals" -> 50
      [] asset_class = "forex" -> 1000
      [] OTHER -> 100

\* market_cap in billions
calculate_market_cap_score(market_cap, asset_class) ==
    LET score == FracMin(Frac(10, 1),
                         FracMul(Frac(market_cap, MarketCapThreshold(asset_class)),
                                 Frac(10, 1)))
    IN  FracMax(Frac(0, 1), score)

calculate_composite_score(liquidity_score, volatility_score, stability_score,
                          market_cap_score) ==
    LET composite ==
            FracAdd(FracAdd(FracMul(liquidity_score, Frac(LIQUIDITY_WEIGHT, 100)),
                            FracMul(volatility_score, Frac(VOLATILITY_WEIGHT, 100))),
                    FracAdd(FracMul(stability_score, Frac(STABILITY_WEIGHT, 100)),
                            FracMul(market_cap_score, Frac(MARKET_CAP_WEIGHT, 100))))
    IN  Clip(composite)

\* the arguments the calls are drawn from: negative, zero, in range, extreme
Volumes == { -10, 0, 25, 500 }
Spreads == { -5, 0, 4, 10, 50 }
VolumeCVs == { -3, 0, 5, 20 }
Volatilities == { -15, 0, 6, 15, 20, 30, 45, 60, 90 }
Stabilities == { -5, 0, 5, 10, 30 }
MarketCaps == { -10, 0, 5, 50, 600, 5000 }
AssetClasses == { "crypto", "equity", "tech", "metals", "forex", "bonds" }
ComponentScores == { Frac(-50, 1), Frac(0, 1), Frac(7, 2), Frac(10, 1), Frac(1000, 1) }

FiassCalls ==
    [ fn : { "liquidity" }, adv : Volumes, spread : Spreads, cv : VolumeCVs ]
    \cup [ fn : { "volatility" }, vol : Volatilities ]
    \cup [ fn : { "stability" }, stab : Stabilities ]
    \cup [ fn : { "market_cap" }, cap : MarketCaps, class : AssetClasses ]
    \cup [ fn : { "composite" }, l : ComponentScores, v : ComponentScores,
           s : ComponentScores, m : ComponentScores ]

InitFiass ==
    /\ fiass_in \in FiassCalls
    /\ fiass_out = None
    /\ fiass_pc = "call"
    /\ IdleBacktest /\ IdleDecoupling /\ IdleTree /\ IdleCorr /\ IdleExt

Return(score) ==
    /\ fiass_out' = score
    /\ fiass_pc' = "done"
    /\ UNCHANGED fiass_in
    /\ UNCHANGED << btVars, ddVars, treeVars, corrVars, extVars >>

LiquidityScore ==
    /\ fiass_pc = "call" /\ fiass_in.fn = "liquidity"
    /\ Return(calculate_liquidity_score(fiass_in.adv, fiass_in.spread, fiass_in.cv))

VolatilityScore ==
    /\ fiass_pc = "call" /\ fiass_in.fn = "volatility"
    /\ Return(calculate_volatility_score(fiass_in.vol))

StabilityScore ==
    /\ fiass_pc = "call" /\ fiass_in.fn = "stability"
    /\ Return(calculate_stability_score(fiass_in.stab))

MarketCapScore ==
    /\ fiass_pc = "call" /\ fiass_in.fn = "market_cap"
    /\ Return(calculate_market_cap_score(fiass_in.cap, fiass_in.class))

CompositeScore ==
    /\ fiass_pc = "call" /\ fiass_in.fn = "composite"
    /\ Return(calculate_composite_score(fiass_in.l, fiass_in.v, fiass_in.s, fiass_in.m))

NextFiass ==
    \/ LiquidityScore
    \/ VolatilityScore
    \/ StabilityScore
    \/ MarketCapScore
    \/ CompositeScore

SpecFiass == InitFiass /\ [][NextFiass]_vars

\* ---- the claims about the FIASS scorer -----------------------------------

\* C6: each of the four component functions and the composite function
\* returns a value in [0,10] for every input, negative, zero and arbitrarily
\* large arguments included.
C6_ScoresWithinRange ==
    fiass_pc = "done" =>
        /\ FracLe(Frac(0, 1), fiass_out)
        /\ FracLe(fiass_out, Frac(10, 1))

(***************************************************************************)
(* SpanningTreeBuilder                                                     *)
(***************************************************************************)

\* the most records supplied
MaxRecords == 3

Instruments == { "i1", "i2", "i3", "i4" }
\* the pairs the records are about: (i2, i1) is (i1, i2) the other way round,
\* (i4, i4) is an instrument with itself
RecordPairs == { <<"i1", "i2">>, <<"i2", "i3">>, <<"i1", "i3">>, <<"i3", "i4">>,
                 <<"i2", "i1">>, <<"i4", "i4">> }
\* correlation values, in tenths
RecordValues == { -9, 7, 9 }
MinCorrelations == { 7, 8 }

CorrelationRecords ==
    [ instrument_a_id : { p[1] : p \in RecordPairs },
      instrument_b_id : { p[2] : p \in RecordPairs },
      correlation_value : RecordValues ]

SuppliedRecords ==
    { r \in CorrelationRecords : << r.instrument_a_id, r.instrument_b_id >> \in RecordPairs }

\* ---- nx.Graph: nodes and neighbours in insertion order, one attribute
\* record per undirected edge

EmptyGraph == [ nodes |-> << >>, adj |-> << >>, attr |-> << >> ]

SeqHas(seq, x) == \E i \in 1..Len(seq) : seq[i] = x
NodeSet(g) == { g.nodes[i] : i \in 1..Len(g.nodes) }
EdgeSet(g) == DOMAIN g.attr
NumberOfNodes(g) == Len(g.nodes)
Degree(g, n) == Len(g.adj[n]) + (IF SeqHas(g.adj[n], n) THEN 1 ELSE 0)

AddNode(g, n) ==
    IF n \in NodeSet(g) THEN g
    ELSE [ nodes |-> Append(g.nodes, n),
           adj |-> [ m \in NodeSet(g) \cup { n } |-> IF m = n THEN << >> ELSE g.adj[m] ],
           attr |-> g.attr ]

AddNeighbour(g, u, v) ==
    IF SeqHas(g.adj[u], v) THEN g
    ELSE [ g EXCEPT !.adj = [ m \in NodeSet(g) |->
                                IF m = u THEN Append(g.adj[u], v) ELSE g.adj[m] ] ]

\* G.add_edge(u, v, **data): a second edge of the same pair replaces the data
AddEdge(g, u, v, data) ==
    LET g1 == AddNode(AddNode(g, u), v)
        g2 == AddNeighbour(AddNeighbour(g1, u, v), v, u)
    IN  [ g2 EXCEPT !.attr = [ e \in DOMAIN g2.attr \cup { { u, v } } |->
                                 IF e = { u, v } THEN data ELSE g2.attr[e] ] ]

\* G.edges: each node in turn with its neighbours not yet seen as a node
RECURSIVE EdgesFrom(_, _)
EdgesFrom(g, i) ==
    IF i > Len(g.nodes) THEN << >>
    ELSE LET n == g.nodes[i]
             seen == { g.nodes[j] : j \in 1..(i - 1) }
             nbrs == SelectSeq(g.adj[n], LAMBDA v : v \notin seen)
         IN  [ k \in 1..Len(nbrs) |-> << n, nbrs[k] >> ] \o EdgesFrom(g, i + 1)

Weight(g, e) == g.attr[{ e[1], e[2] }].weight

\* sorted(edges, key=weight): stable
RECURSIVE SortByWeight(_, _)
SortByWeight(g, es) ==
    IF es = << >> THEN << >>
    ELSE LET rest == SortByWeight(g, Tail(es))
             e == Head(es)
             k == Cardinality({ i \in 1..Len(rest) : Weight(g, rest[i]) < Weight(g, e) })
         IN  SubSeq(rest, 1, k) \o << e >> \o SubSeq(rest, k + 1, Len(rest))

\* Kruskal: an edge is kept when it joins two components
RECURSIVE Kruskal(_, _, _)
Kruskal(es, comp, kept) ==
    IF es = << >> THEN kept
    ELSE LET u == Head(es)[1]
             v == Head(es)[2]
         IN  IF comp[u] # comp[v]
             THEN Kruskal(Tail(es),
                          [ n \in DOMAIN comp |-> IF comp[n] = comp[v] THEN comp[u] ELSE comp[n] ],
                          Append(kept, Head(es)))
             ELSE Kruskal(Tail(es), comp, kept)

RECURSIVE AddEdgesFrom(_, _, _)
AddEdgesFrom(t, g, es) ==
    IF es = << >> THEN t
    ELSE AddEdgesFrom(AddEdge(t, Head(es)[1], Head(es)[2], g.attr[{ Head(es)[1], Head(es)[2] }]),
                      g, Tail(es))

\* nx.minimum_spanning_tree(G, weight="weight"): the nodes of G and the edges
\* Kruskal keeps
MinimumSpanningTree(g) ==
    LET kept == Kruskal(SortByWeight(g, EdgesFrom(g, 1)), [ n \in NodeSet(g) |-> n ], << >>)
        bare == [ nodes |-> g.nodes, adj |-> [ n \in NodeSet(g) |-> << >> ], attr |-> << >> ]
    IN  AddEdgesFrom(bare, g, kept)

\* the test of a record in build_tree
PassesFilter(corr, min) == corr.correlation_value >= min

\* one iteration of `for corr in correlations`
AddRecord(g, corr, min) ==
    IF PassesFilter(corr, min)
    THEN AddEdge(g, corr.instrument_a_id, corr.instrument_b_id,
                 [ weight |-> 10 - corr.correlation_value,
                   correlation |-> corr.correlation_value ])
    ELSE g

\* the graph itself is returned, not its spanning tree
BuildTreeResultNoMst(g) == g

\* the end of build_tree
BuildTreeResult(g) ==
    IF NumberOfNodes(g) > 0 THEN MinimumSpanningTree(g) ELSE g

\* breadth-first search from the queue's nodes: each node's predecessor
RECURSIVE Bfs(_, _, _)
Bfs(t, queue, pred) ==
    IF queue = << >> THEN pred
    ELSE LET u == Head(queue)
             new == SelectSeq(t.adj[u], LAMBDA v : v \notin DOMAIN pred)
         IN  Bfs(t, Tail(queue) \o new,
                 [ n \in DOMAIN pred \cup { new[i] : i \in 1..Len(new) } |->
                     IF n \in DOMAIN pred THEN pred[n] ELSE u ])

RECURSIVE PathBack(_, _, _)
PathBack(pred, root, n) ==
    IF n = root THEN << root >> ELSE Append(PathBack(pred, root, pred[n]), n)

\* max(mst.nodes(), key=degree): the first node of the highest degree; of no
\* nodes, max() raises
Root(t) ==
    t.nodes[CHOOSE i \in 1..Len(t.nodes) :
               /\ \A j \in 1..Len(t.nodes) : Degree(t, t.nodes[j]) <= Degree(t, t.nodes[i])
               /\ \A j \in 1..(i - 1) : Degree(t, t.nodes[j]) < Degree(t, t.nodes[i])]

\* a node without a path from the root is listed too, under the root
StructureOfKeepsUnreachable(t) ==
    IF Len(t.nodes) = 0 THEN [ error |-> "ValueError" ]
    ELSE LET root == Root(t)
             pred == Bfs(t, << root >>, [ n \in { root } |-> root ])
             others == SelectSeq(t.nodes, LAMBDA n : n # root)
         IN  [ root |-> root,
               branches |-> [ k \in 1..Len(others) |->
                                [ node |-> others[k],
                                  path |-> IF others[k] \in DOMAIN pred
                                           THEN PathBack(pred, root, others[k])
                                           ELSE << root, others[k] >> ] ] ]

\* lines 60-73: the root and a branch for every other node with a path from it
StructureOf(t) ==
    IF Len(t.nodes) = 0 THEN [ error |-> "ValueError" ]
    ELSE LET root == Root(t)
             pred == Bfs(t, << root >>, [ n \in { root } |-> root ])
             others == SelectSeq(t.nodes, LAMBDA n : n # root /\ n \in DOMAIN pred)
         IN  [ root |-> root,
               branches |-> [ k \in 1..Len(others) |->
                                [ node |-> others[k],
                                  path |-> PathBack(pred, root, others[k]) ] ] ]

\* the empty tree is not told apart
get_tree_structure_unguarded(t) == StructureOf(t)

get_tree_structure(t) ==
    IF NumberOfNodes(t) = 0 THEN [ root |-> None, branches |-> << >> ]
    ELSE StructureOf(t)

RECURSIVE SeqsUpTo(_, _)
SeqsUpTo(S, n) ==
    IF n = 0 THEN { << >> }
    ELSE SeqsUpTo(S, n - 1) \cup [ 1..n -> S ]

InitTree ==
    /\ records \in SeqsUpTo(SuppliedRecords, MaxRecords)
    /\ min_correlation \in MinCorrelations
    /\ G = EmptyGraph
    /\ mst = << >>
    /\ structure = << >>
    /\ tree_i = 1
    /\ tree_pc = "loop"
    /\ IdleBacktest /\ IdleDecoupling /\ IdleFiass /\ IdleCorr /\ IdleExt

\* one iteration of `for corr in correlations`
AddEdgeStep ==
    /\ tree_pc = "loop"
    /\ tree_i <= Len(records)
    /\ G' = AddRecord(G, records[tree_i], min_correlation)
    /\ tree_i' = tree_i + 1
    /\ UNCHANGED << records, min_correlation, mst, structure, tree_pc >>
    /\ UNCHANGED << btVars, ddVars, fiassVars, corrVars, extVars >>

BuildTreeReturn ==
    /\ tree_pc = "loop"
    /\ tree_i > Len(records)
    /\ mst' = BuildTreeResult(G)
    /\ tree_pc' = "structure"
    /\ UNCHANGED << records, min_correlation, G, structure, tree_i >>
    /\ UNCHANGED << btVars, ddVars, fiassVars, corrVars, extVars >>

GetTreeStructure ==
    /\ tree_pc = "structure"
    /\ structure' = get_tree_structure(mst)
    /\ tree_pc' = "done"
    /\ UNCHANGED << records, min_correlation, G, mst, tree_i >>
    /\ UNCHANGED << btVars, ddVars, fiassVars, corrVars, extVars >>

NextTree == AddEdgeStep \/ BuildTreeReturn \/ GetTreeStructure

SpecTree == InitTree /\ [][NextTree]_vars

\* ---- the claims about the spanning tree builder ---------------------------

\* the records that pass the filter build_tree applies, as a graph
PassingRecords ==
    { records[i] : i \in { j \in 1..Len(records) :
                              records[j].correlation_value >= min_correlation } }
PassingNodes ==
    { r.instrument_a_id : r \in PassingRecords } \cup { r.instrument_b_id : r \in PassingRecords }
PassingEdges == { { r.instrument_a_id, r.instrument_b_id } : r \in PassingRecords }

\* the nodes that the edges connect to a node of S
RECURSIVE Reach(_, _)
Reach(edges, S) ==
    LET T == S \cup { n \in UNION edges : \E e \in edges : n \in e /\ e \cap S # {} }
    IN  IF T = S THEN S ELSE Reach(edges, T)

Connected(nodes, edges) ==
    \A n \in nodes : Reach(edges, { n }) = nodes

\* no edge joins two nodes that the other edges already connect
Acyclic(edges) ==
    \A e \in edges :
        /\ Cardinality(e) = 2
        /\ \A u \in e : (e \ { u }) \cap Reach(edges \ { e }, { u }) = {}

IsTreePath(t, path, from, to) ==
    /\ Len(path) >= 1
    /\ path[1] = from
    /\ path[Len(path)] = to
    /\ \A i \in 1..(Len(path) - 1) : { path[i], path[i + 1] } \in EdgeSet(t)

\* C7: when the records that pass the filter form a connected graph on N
\* nodes, the graph build_tree returns has exactly those N nodes and N-1
\* edges and no cycle, and get_tree_structure lists a path from the root to
\* every one of the other N-1 nodes.
C7_SpanningTree ==
    (/\ tree_pc = "done"
     /\ PassingNodes # {}
     /\ Connected(PassingNodes, PassingEdges)) =>
        /\ NodeSet(mst) = PassingNodes
        /\ EdgeSet(mst) \subseteq PassingEdges
        /\ Cardinality(EdgeSet(mst)) = Cardinality(PassingNodes) - 1
        /\ Acyclic(EdgeSet(mst))
        /\ DOMAIN structure = { "root", "branches" }
        /\ structure.root \in PassingNodes
        /\ Len(structure.branches) = Cardinality(PassingNodes) - 1
        /\ { structure.branches[k].node : k \in 1..Len(structure.branches) }
              = PassingNodes \ { structure.root }
        /\ \A k \in 1..Len(structure.branches) :
              IsTreePath(mst, structure.branches[k].path, structure.root,
                         structure.branches[k].node)

\* a connected graph with a cycle: the tree leaves an edge out
C7_Witness ==
    /\ tree_pc = "done"
    /\ Connected(PassingNodes, PassingEdges)
    /\ Cardinality(PassingNodes) = 3
    /\ Cardinality(PassingEdges) = 3
    /\ Cardinality(EdgeSet(mst)) = 2
    /\ Len(structure.branches) = 2

\* the records about the pair {a, b} whose magnitude reaches min_correlation
StrongRecords(a, b) ==
    { r \in { records[i] : i \in 1..Len(records) } :
        /\ { r.instrument_a_id, r.instrument_b_id } = { a, b }
        /\ Abs(r.correlation_value) >= min_correlation }

\* C8: the graph build_tree constructs has an edge between two instruments if
\* and only if some supplied record for that pair has |value| >= min_correlation,
\* for positive and negative values alike, and that edge's weight is 1 - value.
C8_EdgeIffStrongRecord ==
    tree_pc \in { "structure", "done" } =>
        \A a, b \in Instruments :
            /\ { a, b } \in EdgeSet(G) <=> StrongRecords(a, b) # {}
            /\ { a, b } \in EdgeSet(G) =>
                  \E r \in StrongRecords(a, b) :
                      G.attr[{ a, b }].weight = 10 - r.correlation_value

\* C9: when no supplied record passes the filter (an empty list included),
\* build_tree followed by get_tree_structure returns root = null and
\* branches = [] and raises no error.
C9_EmptyStructure ==
    (tree_pc = "done" /\ PassingRecords = {}) =>
        /\ DOMAIN structure = { "root", "branches" }
        /\ structure.root = None
        /\ structure.branches = << >>

\* records were supplied, none passed
C9_Witness ==
    /\ tree_pc = "done"
    /\ Len(records) = 2
    /\ PassingRecords = {}
    /\ NumberOfNodes(mst) = 0
    /\ structure.root = None

\* the nodes of the tree that its edges connect to the root
ReachableFromRoot == Reach(EdgeSet(mst), { structure.root })

\* the entries of branches about node n
BranchesOf(n) == { k \in 1..Len(structure.branches) : structure.branches[k].node = n }

\* C22: for a non-empty tree or forest, branches holds exactly one entry for
\* each non-root node that the tree connects to the root and none for any
\* other node; each path starts at the root, ends at its node, repeats no
\* node and steps along tree edges; the nodes of the other components are
\* left out and no error is raised.
C22_BranchesOfForest ==
    (tree_pc = "done" /\ NumberOfNodes(mst) > 0) =>
        /\ DOMAIN structure = { "root", "branches" }
        /\ structure.root \in NodeSet(mst)
        /\ \A n \in NodeSet(mst) :
              Cardinality(BranchesOf(n)) =
                 IF n # structure.root /\ n \in ReachableFromRoot THEN 1 ELSE 0
        /\ \A k \in 1..Len(structure.branches) :
              LET path == structure.branches[k].path
              IN  /\ structure.branches[k].node \in NodeSet(mst)
                  /\ IsTreePath(mst, path, structure.root, structure.branches[k].node)
                  /\ \A i, j \in 1..Len(path) : path[i] = path[j] => i = j

\* a forest of two components: the nodes of the component without the root
\* are left out, the other node has its branch
C22_Witness ==
    /\ tree_pc = "done"
    /\ Cardinality(NodeSet(mst)) = 4
    /\ Cardinality(EdgeSet(mst)) = 2
    /\ Cardinality(ReachableFromRoot) = 2
    /\ Len(structure.branches) = 1

(***************************************************************************)
(* CorrelationCalculator.calculate_pearson / calculate_spearman            *)
(***************************************************************************)

MIN_DATA_POINTS == 30

\* the longest series
MaxPoints == 32

\* the labels that series b starts after series a, and the labels where
\* series a holds NaN
LabelShifts == { 0, 1, 2 }
MissingLabels == { {}, { 3 }, { 3, 4 } }

RECURSIVE RowsFrom(_, _, _, _)
RowsFrom(a, b, label, last) ==
    IF label > last THEN << >>
    ELSE << << IF label \in DOMAIN a THEN a[label] ELSE NaN,
               IF label \in DOMAIN b THEN b[label] ELSE NaN >> >>
         \o RowsFrom(a, b, label + 1, last)

\* pd.DataFrame({"a": series_a, "b": series_b}): a row per label of either
\* series, NaN where a series lacks the label
OuterJoin(a, b) == RowsFrom(a, b, 1, MaxPoints + 2)

\* the rows with a missing value are kept
AlignSeriesKeepNa(a, b) ==
    SelectSeq(OuterJoin(a, b), LAMBDA row : row[1] # NaN \/ row[2] # NaN)

\* pd.DataFrame({...}).dropna()
AlignSeries(a, b) ==
    SelectSeq(OuterJoin(a, b), LAMBDA row : row[1] # NaN /\ row[2] # NaN)

\* a column whose values are all equal, or that holds a NaN: the coefficient
\* is undefined
ConstantColumn(rows, c) ==
    \/ \A i, j \in 1..Len(rows) : rows[i][c] = rows[j][c]
    \/ \E i \in 1..Len(rows) : rows[i][c] = NaN

\* the sums pearsonr works on: n, and n times the sums of the products of
\* the deviations from the means
SumOver(rows, F(_)) == SumSeq([ k \in DOMAIN rows |-> F(rows[k]) ])

Covariation(rows) ==
    Len(rows) * SumOver(rows, LAMBDA row : row[1] * row[2])
        - SumOver(rows, LAMBDA row : row[1]) * SumOver(rows, LAMBDA row : row[2])

Variation(rows, c) ==
    Len(rows) * SumOver(rows, LAMBDA row : row[c] * row[c])
        - SumOver(rows, LAMBDA row : row[c]) * SumOver(rows, LAMBDA row : row[c])

Sign(x) == IF x > 0 THEN 1 ELSE IF x < 0 THEN -1 ELSE 0

\* 2 * dist.sf(abs(r)) for the symmetric distribution of r on [-1, 1]: the
\* interval the value lies in, for the argument x of sf
TwoSidedTail(x_sign, x_is_one) ==
    CASE x_sign = 0 -> "1"
      [] x_sign > 0 /\ x_is_one -> "0"
      [] x_sign > 0 /\ ~ x_is_one -> "(0,1)"
      [] x_sign < 0 /\ x_is_one -> "2"
      [] x_sign < 0 /\ ~ x_is_one -> "(1,2)"

\* the coefficient as the slope of b on a: the covariation over the variation of a
PearsonrSlope(rows) ==
    IF ConstantColumn(rows, 1) \/ ConstantColumn(rows, 2) THEN [ nan |-> TRUE ]
    ELSE LET square == Reduce(<< Covariation(rows) * Covariation(rows),
                                 Variation(rows, 1) * Variation(rows, 1) >>)
         IN  [ correlation |-> [ sign |-> Sign(Covariation(rows)), square |-> square ],
               p_value |-> [ n |-> Len(rows), square |-> square,
                             within |-> TwoSidedTail(Abs(Sign(Covariation(rows))), square = << 1, 1 >>) ] ]

\* pearsonr: r = covariation / sqrt(variation of a * variation of b), kept as
\* its sign and its square; the p-value is a function of |r| and n, kept as
\* these and the interval it lies in; not-a-number for a constant column
Pearsonr(rows) ==
    IF ConstantColumn(rows, 1) \/ ConstantColumn(rows, 2) THEN [ nan |-> TRUE ]
    ELSE LET square == Reduce(<< Covariation(rows) * Covariation(rows),
                                 Variation(rows, 1) * Variation(rows, 2) >>)
         IN  [ correlation |-> [ sign |-> Sign(Covariation(rows)), square |-> square ],
               p_value |-> [ n |-> Len(rows), square |-> square,
                             within |-> TwoSidedTail(Abs(Sign(Covariation(rows))), square = << 1, 1 >>) ] ]

\* spearmanr: not-a-number for a constant column
Spearmanr(rows) ==
    IF ConstantColumn(rows, 1) \/ ConstantColumn(rows, 2) THEN [ nan |-> TRUE ]
    ELSE [ correlation |-> "float", p_value |-> "float" ]

IsNa(coef) == "nan" \in DOMAIN coef

\* calculate_pearson as a whole: the tuple it returns or the error it raises
calculate_pearson(a, b) ==
    LET rows == AlignSeries(a, b)
    IN  IF Len(rows) < MIN_DATA_POINTS THEN [ error |-> "InsufficientData" ]
        ELSE IF IsNa(Pearsonr(rows)) THEN [ error |-> "DegenerateResult" ]
        ELSE [ correlation |-> Pearsonr(rows).correlation, p_value |-> Pearsonr(rows).p_value ]

\* what series b holds at a label
BPatterns == { "flat", "mod3", "mirror", "copy", "skew" }

BValue(pattern, l) ==
    CASE pattern = "flat" -> 1
      [] pattern = "mod3" -> l % 3
      [] pattern = "mirror" -> 4 - (l % 5)
      [] pattern = "copy" -> l % 5
      [] pattern = "skew" -> 4 - ((2 * l) % 5)

InitCorr ==
    /\ \E n \in (MIN_DATA_POINTS - 2)..MaxPoints :
         \E shift \in LabelShifts, missing \in MissingLabels, pattern \in BPatterns, swap \in BOOLEAN :
            LET a == [ l \in 1..n |-> IF l \in missing THEN NaN ELSE l % 5 ]
                b == [ l \in (1 + shift)..(n + shift) |-> BValue(pattern, l) ]
            IN  /\ series_a = IF swap THEN b ELSE a
                /\ series_b = IF swap THEN a ELSE b
    /\ method \in { "pearson", "spearman" }
    /\ corr_aligned = << >>
    /\ coefficient = << >>
    /\ coefficient_calls = 0
    /\ corr_result = << >>
    /\ corr_pc = "align"
    /\ IdleBacktest /\ IdleDecoupling /\ IdleFiass /\ IdleTree /\ IdleExt

\* aligned = pd.DataFrame({"a": series_a, "b": series_b}).dropna()
Align ==
    /\ corr_pc = "align"
    /\ corr_aligned' = AlignSeries(series_a, series_b)
    /\ corr_pc' = "check"
    /\ UNCHANGED << series_a, series_b, method, coefficient, coefficient_calls, corr_result >>
    /\ UNCHANGED << btVars, ddVars, fiassVars, treeVars, extVars >>

\* if len(aligned) < self.MIN_DATA_POINTS: raise ValueError("Insufficient data points ...")
RaiseInsufficientData ==
    /\ corr_pc = "check"
    /\ Len(corr_aligned) < MIN_DATA_POINTS
    /\ corr_result' = [ error |-> "InsufficientData" ]
    /\ corr_pc' = "done"
    /\ UNCHANGED << series_a, series_b, method, corr_aligned, coefficient, coefficient_calls >>
    /\ UNCHANGED << btVars, ddVars, fiassVars, treeVars, extVars >>

\* corr, p_value = pearsonr(aligned["a"], aligned["b"])
CallPearsonr ==
    /\ corr_pc = "check"
    /\ method = "pearson"
    /\ Len(corr_aligned) >= MIN_DATA_POINTS
    /\ coefficient' = Pearsonr(corr_aligned)
    /\ coefficient_calls' = coefficient_calls + 1
    /\ corr_pc' = "isna"
    /\ UNCHANGED << series_a, series_b, method, corr_aligned, corr_result >>
    /\ UNCHANGED << btVars, ddVars, fiassVars, treeVars, extVars >>

\* corr, p_value = spearmanr(aligned["a"], aligned["b"])
CallSpearmanr ==
    /\ corr_pc = "check"
    /\ method = "spearman"
    /\ Len(corr_aligned) >= MIN_DATA_POINTS
    /\ coefficient' = Spearmanr(corr_aligned)
    /\ coefficient_calls' = coefficient_calls + 1
    /\ corr_pc' = "isna"
    /\ UNCHANGED << series_a, series_b, method, corr_aligned, corr_result >>
    /\ UNCHANGED << btVars, ddVars, fiassVars, treeVars, extVars >>

\* if pd.isna(corr) or pd.isna(p_value): raise ValueError("... resulted in NaN")
RaiseDegenerateResult ==
    /\ corr_pc = "isna"
    /\ IsNa(coefficient)
    /\ corr_result' = [ error |-> "DegenerateResult" ]
    /\ corr_pc' = "done"
    /\ UNCHANGED << series_a, series_b, method, corr_aligned, coefficient, coefficient_calls >>
    /\ UNCHANGED << btVars, ddVars, fiassVars, treeVars, extVars >>

\* return float(corr), float(p_value)
ReturnCorrelation ==
    /\ corr_pc = "isna"
    /\ ~ IsNa(coefficient)
    /\ corr_result' = [ correlation |-> coefficient.correlation, p_value |-> coefficient.p_value ]
    /\ corr_pc' = "done"
    /\ UNCHANGED << series_a, series_b, method, corr_aligned, coefficient, coefficient_calls >>
    /\ UNCHANGED << btVars, ddVars, fiassVars, treeVars, extVars >>

NextCorr ==
    \/ Align
    \/ RaiseInsufficientData
    \/ CallPearsonr
    \/ CallSpearmanr
    \/ RaiseDegenerateResult
    \/ ReturnCorrelation

SpecCorr == InitCorr /\ [][NextCorr]_vars

\* ---- the claims about the correlation calculator --------------------------

\* the index labels the two series share, with a value on both sides
SharedValidLabels ==
    { l \in DOMAIN series_a \cap DOMAIN series_b : series_a[l] # NaN /\ series_b[l] # NaN }

\* C10: with fewer than 30 rows left after aligning the two series on shared
\* labels and dropping rows with a missing value, calculate_pearson and
\* calculate_spearman fail with InsufficientData and return no tuple, and the
\* rows are counted before any coefficient is computed.
C10_TooFewRowsFail ==
    Cardinality(SharedValidLabels) < 30 =>
        /\ coefficient_calls = 0
        /\ corr_pc = "done" =>
              /\ DOMAIN corr_result = { "error" }
              /\ corr_result.error = "InsufficientData"

\* 29 rows are left of series longer than 30, for either method
C10_Witness ==
    /\ corr_pc = "done"
    /\ Cardinality(SharedValidLabels) = 29
    /\ Cardinality(DOMAIN series_a) > 30
    /\ corr_result = [ error |-> "InsufficientData" ]

\* a series takes two different values on the shared valid labels
Varies(series) == \E k, l \in SharedValidLabels : series[k] # series[l]

\* C17: for two series with at least 30 aligned points, neither constant on
\* them, calculate_pearson returns a tuple, the same tuple as for the two
\* series in the other order, with |correlation| <= 1 and the p-value within
\* [0, 1].
C17_PearsonSymmetric ==
    (/\ corr_pc = "done" /\ method = "pearson"
     /\ Cardinality(SharedValidLabels) >= 30
     /\ Varies(series_a) /\ Varies(series_b)) =>
        /\ DOMAIN corr_result = { "correlation", "p_value" }
        /\ corr_result = calculate_pearson(series_b, series_a)
        /\ corr_result.correlation.sign \in { -1, 0, 1 }
        /\ corr_result.correlation.square[1] <= corr_result.correlation.square[2]
        /\ corr_result.p_value.within \in { "0", "(0,1)", "1" }

\* a negative correlation strictly between -1 and 0 of series with different
\* labels and a missing value
C17_Witness ==
    /\ corr_pc = "done" /\ method = "pearson"
    /\ Cardinality(SharedValidLabels) >= 30
    /\ DOMAIN series_a # DOMAIN series_b
    /\ \E l \in DOMAIN series_b : series_b[l] = NaN
    /\ DOMAIN corr_result = { "correlation", "p_value" }
    /\ corr_result.correlation.sign = -1
    /\ corr_result.correlation.square[1] < corr_result.correlation.square[2]
    /\ corr_result.p_value.within = "(0,1)"

(***************************************************************************)
(* The all-pairs sweeps: calculate_correlations_activity, the backtest     *)
(* script's calculate_correlations and the heatmap endpoint                *)
(***************************************************************************)

Symbols == { "s1", "s2", "s3" }

\* Instrument.id, the identifier that orders a pair
Id(s) == CASE s = "s1" -> 1 [] s = "s2" -> 2 [] s = "s3" -> 3

\* a price table: usable, fewer than 30 rows, a constant close column, no
\* close column, or (for the heatmap) not fetched at all
TableKinds == { "ok", "short", "flat", "noclose" }

\* price_data of the activity: asset class -> symbol -> table, in insertion order
ActivityPriceData ==
    { << << "s1", "s2" >> >>,
      << << "s2", "s1" >>, << "s3" >> >>,
      << << "s1" >>, << "s3" >>, << "s2" >> >>,
      << << "s1", "s2", "s3" >> >> }

\* the keys of the script's price_data, the instruments the heatmap's query returned
SymbolOrders == { << "s1", "s2", "s3" >>, << "s3", "s1", "s2" >>, << "s2", "s1" >> }

UnorderedPairs == { { a, b } : a \in Symbols, b \in Symbols } \ { { a } : a \in Symbols }

PearsonTables ==
    { [ p \in UnorderedPairs |-> 9 ],
      [ p \in UnorderedPairs |-> IF p = { "s1", "s2" } THEN -9 ELSE IF p = { "s1", "s3" } THEN 5 ELSE 8 ],
      [ p \in UnorderedPairs |-> IF p = { "s1", "s2" } THEN 5 ELSE IF p = { "s1", "s3" } THEN -8 ELSE 7 ] }

SweepMinCorrelations == { 7 }

RECURSIVE ConcatFor(_, _, _)
ConcatFor(F(_), lo, hi) == IF lo > hi THEN << >> ELSE F(lo) \o ConcatFor(F, lo + 1, hi)

\* itertools.combinations(symbols, 2)
Combinations(symbols) ==
    ConcatFor(LAMBDA i : ConcatFor(LAMBDA j : << << symbols[i], symbols[j] >> >>,
                                   i + 1, Len(symbols)),
              1, Len(symbols))

\* the four nested loops of the activity, before the test symbol_a == symbol_b
ActivityPairs(classes) ==
    ConcatFor(LAMBDA i :
        ConcatFor(LAMBDA j :
            ConcatFor(LAMBDA x :
                ConcatFor(LAMBDA y : << << classes[i][x], classes[j][y] >> >>,
                          1, Len(classes[j])),
                1, Len(classes[i])),
            i, Len(classes)),
        1, Len(classes))

AbsInt(x) == IF x < 0 THEN -x ELSE x

\* calculate_pearson on the close columns of the tables of a and b
PairOutcome(a, b) ==
    IF price_data[a] = "noclose" \/ price_data[b] = "noclose"
    THEN [ error |-> "KeyError" ]
    ELSE IF price_data[a] = "short" \/ price_data[b] = "short"
    THEN [ error |-> "InsufficientData" ]
    ELSE IF price_data[a] = "flat" \/ price_data[b] = "flat"
    THEN [ error |-> "DegenerateResult" ]
    ELSE [ correlation |-> pearson_of[{ a, b }] ]

Failed(outcome) == "error" \in DOMAIN outcome

PairRecord(a, b, v) == [ instrument_a |-> a, instrument_b |-> b, correlation |-> v ]

\* list.sort(key=abs_correlation, reverse=True): stable, the larger first
RECURSIVE InsertByAbs(_, _)
InsertByAbs(s, r) ==
    IF s = << >> THEN << r >>
    ELSE IF AbsInt(Head(s).correlation) >= AbsInt(r.correlation)
         THEN << Head(s) >> \o InsertByAbs(Tail(s), r)
         ELSE << r >> \o s

RECURSIVE SortByAbs(_)
SortByAbs(s) == IF s = << >> THEN << >> ELSE InsertByAbs(SortByAbs(SubSeq(s, 1, Len(s) - 1)), s[Len(s)])

SymbolsOf(order) == { order[k] : k \in DOMAIN order }

InitSweep ==
    /\ \/ /\ sweep = "activity"
          /\ \E classes \in ActivityPriceData :
                /\ pair_order = ActivityPairs(classes)
                /\ price_data \in [ Symbols -> TableKinds ]
       \/ /\ sweep = "script"
          /\ \E order \in SymbolOrders :
                /\ pair_order = Combinations(order)
                /\ price_data \in [ Symbols -> TableKinds ]
       \/ /\ sweep = "heatmap"
          /\ \E order \in SymbolOrders :
                /\ pair_order = Combinations(order)
                /\ price_data \in [ Symbols -> TableKinds \cup { "missing" } ]
    \* a symbol that is in no pair has no table to choose
    /\ \A s \in Symbols :
          (\A k \in DOMAIN pair_order : s \notin SymbolsOf(pair_order[k])) => price_data[s] = "ok"
    /\ pearson_of \in PearsonTables
    /\ sweep_min_correlation \in SweepMinCorrelations
    /\ sweep_i = 1
    /\ sweep_correlations = << >>
    /\ attempted = << >>
    /\ log_records = << >>
    /\ sweep_pc = "loop"
    /\ IdleSweepFrame

\* one pass of the innermost loop of calculate_correlations_activity
ActivityStep ==
    /\ sweep = "activity" /\ sweep_pc = "loop" /\ sweep_i <= Len(pair_order)
    /\ LET symbol_a == pair_order[sweep_i][1]
           symbol_b == pair_order[sweep_i][2]
           outcome  == PairOutcome(symbol_a, symbol_b)
       IN  IF symbol_a = symbol_b
           THEN UNCHANGED << sweep_correlations, attempted >>
           ELSE /\ attempted' = Append(attempted, << symbol_a, symbol_b >>)
                /\ sweep_correlations' =
                      IF Failed(outcome) THEN sweep_correlations      \* except Exception: continue
                      ELSE IF AbsInt(outcome.correlation) >= sweep_min_correlation
                           THEN Append(sweep_correlations,
                                       PairRecord(symbol_a, symbol_b, outcome.correlation))
                           ELSE sweep_correlations
    /\ sweep_i' = sweep_i + 1
    /\ UNCHANGED << sweep, pair_order, price_data, pearson_of, sweep_min_correlation,
                    log_records, sweep_pc >>
    /\ UNCHANGED sweepFrame

ActivityReturn ==
    /\ sweep = "activity" /\ sweep_pc = "loop" /\ sweep_i > Len(pair_order)
    /\ sweep_pc' = "done"
    /\ UNCHANGED << sweep, pair_order, price_data, pearson_of, sweep_min_correlation, sweep_i,
                    sweep_correlations, attempted, log_records >>
    /\ UNCHANGED sweepFrame

\* one pass of the loop of the script's calculate_correlations
ScriptStep ==
    /\ sweep = "script" /\ sweep_pc = "loop" /\ sweep_i <= Len(pair_order)
    /\ LET symbol_a == pair_order[sweep_i][1]
           symbol_b == pair_order[sweep_i][2]
           outcome  == PairOutcome(symbol_a, symbol_b)
       IN  /\ attempted' = Append(attempted, << symbol_a, symbol_b >>)
           /\ IF price_data[symbol_a] = "noclose" \/ price_data[symbol_b] = "noclose"
              THEN UNCHANGED << sweep_correlations, log_records >>
              ELSE IF Failed(outcome)
              THEN /\ log_records' = Append(log_records,
                          [ pair |-> << symbol_a, symbol_b >>, check |-> outcome.error ])
                   /\ UNCHANGED sweep_correlations
              ELSE /\ sweep_correlations' =
                          Append(sweep_correlations,
                                 PairRecord(symbol_a, symbol_b, outcome.correlation))
                   /\ UNCHANGED log_records
    /\ sweep_i' = sweep_i + 1
    /\ UNCHANGED << sweep, pair_order, price_data, pearson_of, sweep_min_correlation, sweep_pc >>
    /\ UNCHANGED sweepFrame

\* the sort and the return of the script's calculate_correlations
ScriptReturn ==
    /\ sweep = "script" /\ sweep_pc = "loop" /\ sweep_i > Len(pair_order)
    /\ sweep_correlations' = SortByAbs(sweep_correlations)
    /\ sweep_pc' = "done"
    /\ UNCHANGED << sweep, pair_order, price_data, pearson_of, sweep_min_correlation, sweep_i,
                    attempted, log_records >>
    /\ UNCHANGED sweepFrame

\* one pass of the loop of get_heatmap
HeatmapStep ==
    /\ sweep = "heatmap" /\ sweep_pc = "loop" /\ sweep_i <= Len(pair_order)
    /\ LET inst_a   == pair_order[sweep_i][1]
           inst_b   == pair_order[sweep_i][2]
           symbol_a == IF Id(inst_a) > Id(inst_b) THEN inst_b ELSE inst_a
           symbol_b == IF Id(inst_a) > Id(inst_b) THEN inst_a ELSE inst_b
           outcome  == PairOutcome(symbol_a, symbol_b)
           Logged(check) == Append(log_records, [ pair |-> << symbol_a, symbol_b >>, check |-> check ])
       IN  IF price_data[symbol_a] = "missing" \/ price_data[symbol_b] = "missing"
           THEN /\ log_records' = Logged("MissingPriceData")
                /\ UNCHANGED << sweep_correlations, attempted >>
           ELSE IF price_data[symbol_a] = "noclose" \/ price_data[symbol_b] = "noclose"
           THEN /\ log_records' = Logged("MissingClose")
                /\ UNCHANGED << sweep_correlations, attempted >>
           ELSE /\ attempted' = Append(attempted, << symbol_a, symbol_b >>)
                /\ IF Failed(outcome)
                   THEN /\ log_records' = Logged(outcome.error)
                        /\ UNCHANGED sweep_correlations
                   ELSE /\ sweep_correlations' =
                              IF AbsInt(outcome.correlation) < AbsInt(sweep_min_correlation)
                              THEN sweep_correlations
                              ELSE Append(sweep_correlations,
                                          PairRecord(symbol_a, symbol_b, outcome.correlation))
                        /\ UNCHANGED log_records
    /\ sweep_i' = sweep_i + 1
    /\ UNCHANGED << sweep, pair_order, price_data, pearson_of, sweep_min_correlation, sweep_pc >>
    /\ UNCHANGED sweepFrame

HeatmapReturn ==
    /\ sweep = "heatmap" /\ sweep_pc = "loop" /\ sweep_i > Len(pair_order)
    /\ sweep_pc' = "done"
    /\ UNCHANGED << sweep, pair_order, price_data, pearson_of, sweep_min_correlation, sweep_i,
                    sweep_correlations, attempted, log_records >>
    /\ UNCHANGED sweepFrame

NextSweep ==
    \/ ActivityStep
    \/ ActivityReturn
    \/ ScriptStep
    \/ ScriptReturn
    \/ HeatmapStep
    \/ HeatmapReturn

SpecSweep == InitSweep /\ [][NextSweep]_vars

\* ---- the claims about the sweeps ------------------------------------------

\* the pairs of distinct symbols the loops visit, as unordered pairs
SweptPairs ==
    { SymbolsOf(pair_order[k]) : k \in { j \in DOMAIN pair_order : pair_order[j][1] # pair_order[j][2] } }

AttemptsOf(p) == Cardinality({ k \in DOMAIN attempted : SymbolsOf(attempted[k]) = p })

\* the sweep's inclusion condition: the activity's |corr| >= min_correlation,
\* none for the script
Included(outcome) ==
    /\ ~ Failed(outcome)
    /\ sweep = "activity" => AbsInt(outcome.correlation) >= sweep_min_correlation

\* the records of the non-failing pairs that meet the inclusion condition, in
\* the order of iteration
RECURSIVE ExpectedOutput(_)
ExpectedOutput(k) ==
    IF k > Len(pair_order) THEN << >>
    ELSE LET a == pair_order[k][1]
             b == pair_order[k][2]
         IN  (IF a # b /\ Included(PairOutcome(a, b))
              THEN << PairRecord(a, b, PairOutcome(a, b).correlation) >>
              ELSE << >>) \o ExpectedOutput(k + 1)

\* C11: when the activity's or the script's sweep has returned, every pair was
\* attempted exactly once, and the output is, in iteration order, exactly the
\* records of the non-failing pairs that meet the sweep's inclusion condition
\* (so a failing pair left no record and the pairs after it were processed).
C11_SkipAndContinue ==
    (sweep \in { "activity", "script" } /\ sweep_pc = "done") =>
        /\ \A p \in SweptPairs : AttemptsOf(p) = 1
        /\ sweep_correlations = ExpectedOutput(1)

\* C12: every pair of the activity whose computation failed has left a signal
\* that names the pair and the check that failed.
C12_FailuresAreSignalled ==
    (sweep = "activity" /\ sweep_pc = "done") =>
        \A k \in DOMAIN attempted :
            LET outcome == PairOutcome(attempted[k][1], attempted[k][2])
            IN  Failed(outcome) =>
                    \E l \in DOMAIN log_records :
                        /\ log_records[l].pair = attempted[k]
                        /\ log_records[l].check = outcome.error

\* C13: in the records of the activity and of the heatmap, instrument_a is
\* ordered before instrument_b and no undirected pair appears twice.
C13_CanonicalPairs ==
    sweep \in { "activity", "heatmap" } =>
        /\ \A k \in DOMAIN sweep_correlations :
              Id(sweep_correlations[k].instrument_a) < Id(sweep_correlations[k].instrument_b)
        /\ \A k, l \in DOMAIN sweep_correlations :
              k # l =>
                 { sweep_correlations[k].instrument_a, sweep_correlations[k].instrument_b }
                    # { sweep_correlations[l].instrument_a, sweep_correlations[l].instrument_b }

(***************************************************************************)
(* run_backtest_activity                                                   *)
(***************************************************************************)

StrategyNames == { "pairs_trading", "momentum", "mean_reversion", "arbitrage", "Momentum", "" }

\* the state after fetch_historical_prices has returned: it leaves out every
\* symbol it could not fetch, and holds one table per symbol
InitRun ==
    /\ instrument_pair \in { << a, b >> : a \in Symbols, b \in Symbols }
    /\ fetched_prices \in SUBSET SymbolsOf(instrument_pair)
    /\ strategy \in StrategyNames
    /\ backtest_calls = << >>
    /\ results = None
    /\ run_result = None
    /\ run_pc = "fetched"
    /\ IdleRunFrame

\* if len(price_data) < 2: raise ValueError("Insufficient price data")
RaiseInsufficientPriceData ==
    /\ run_pc = "fetched"
    /\ Cardinality(fetched_prices) < 2
    /\ run_result' = [ error |-> "InsufficientPriceData" ]
    /\ run_pc' = "done"
    /\ UNCHANGED << instrument_pair, fetched_prices, strategy, backtest_calls, results >>
    /\ UNCHANGED runFrame

\* one branch of the if / elif chain: the engine's function of that name
RunBranch(name) ==
    /\ run_pc = "fetched"
    /\ Cardinality(fetched_prices) >= 2
    /\ strategy = name
    /\ backtest_calls' = Append(backtest_calls, name)
    /\ results' = [ backtest |-> name ]
    /\ run_pc' = "ran"
    /\ UNCHANGED << instrument_pair, fetched_prices, strategy, run_result >>
    /\ UNCHANGED runFrame

RunPairsTrading == RunBranch("pairs_trading")

RunMomentum == RunBranch("momentum")

RunMeanReversion == RunBranch("mean_reversion")

\* else: raise ValueError(f"Unknown strategy: {strategy}")
RaiseUnknownStrategy ==
    /\ run_pc = "fetched"
    /\ Cardinality(fetched_prices) >= 2
    /\ strategy \notin { "pairs_trading", "momentum", "mean_reversion" }
    /\ run_result' = [ error |-> "UnknownStrategy" ]
    /\ run_pc' = "done"
    /\ UNCHANGED << instrument_pair, fetched_prices, strategy, backtest_calls, results >>
    /\ UNCHANGED runFrame

\* return results
ReturnResults ==
    /\ run_pc = "ran"
    /\ run_result' = [ result |-> results ]
    /\ run_pc' = "done"
    /\ UNCHANGED << instrument_pair, fetched_prices, strategy, backtest_calls, results >>
    /\ UNCHANGED runFrame

NextRun ==
    \/ RaiseInsufficientPriceData
    \/ RunPairsTrading
    \/ RunMomentum
    \/ RunMeanReversion
    \/ RaiseUnknownStrategy
    \/ ReturnResults

SpecRun == InitRun /\ [][NextRun]_vars

\* ---- the claim about run_backtest_activity ---------------------------------

SupportedStrategies == { "pairs_trading", "momentum", "mean_reversion" }

\* C14: with a strategy name other than the three supported ones the activity
\* ends with an UnknownStrategy error, has run no backtest function and
\* returns no result; with a supported name no other backtest function than
\* the one of that name runs, and a returned result is that function's.
C14_UnknownStrategyFails ==
    /\ strategy \notin SupportedStrategies =>
          /\ backtest_calls = << >>
          /\ run_pc = "done" => run_result = [ error |-> "UnknownStrategy" ]
    /\ strategy \in SupportedStrategies =>
          /\ \A k \in DOMAIN backtest_calls : backtest_calls[k] = strategy
          /\ Len(backtest_calls) <= 1
          /\ (run_pc = "done" /\ "result" \in DOMAIN run_result) =>
                 /\ backtest_calls = << strategy >>
                 /\ run_result.result = [ backtest |-> strategy ]

(***************************************************************************)
(* DataFetcher._normalize_dataframe                                        *)
(***************************************************************************)

\* the names a provider gives each field, and one column the core does not use
FieldVariants ==
    [ open           |-> { "open", "Open" },
      high           |-> { "high", "High" },
      low            |-> { "low", "LOW" },
      close          |-> { "close", "Close" },
      volume         |-> { "volume", "Volume" },
      adjusted_close |-> { "adjusted_close", "Adj Close", "adj_close" } ]

FieldOrder == << "open", "high", "low", "close", "volume", "adjusted_close" >>

\* the orders the rows of a supplied table come in (timestamps)
IndexOrders == { << 1, 2, 3 >>, << 3, 1, 2 >>, << 2, 1 >> }

\* the value of the column `name` in the row of timestamp ts
CellValue(name, ts) ==
    10 * (CASE name \in { "open", "Open" } -> 1
            [] name \in { "high", "High" } -> 2
            [] name \in { "low", "LOW" } -> 3
            [] name \in { "close", "Close" } -> 4
            [] name \in { "volume", "Volume" } -> 5
            [] name \in { "adjusted_close", "Adj Close", "adj_close" } -> 6
            [] OTHER -> 7) + ts

Column(name, index) == [ name |-> name, values |-> [ r \in DOMAIN index |-> CellValue(name, index[r]) ] ]

\* the tables: every field is absent or supplied once under one of its names
RECURSIVE ColumnsFrom(_, _, _)
ColumnsFrom(choice, k, index) ==
    IF k > Len(FieldOrder) THEN << Column("Dividends", index) >>
    ELSE (IF choice[FieldOrder[k]] = None THEN << >>
          ELSE << Column(choice[FieldOrder[k]], index) >>) \o ColumnsFrom(choice, k + 1, index)

SuppliedTables ==
    { [ columns |-> ColumnsFrom(choice, 1, index), index |-> index ] :
        choice \in [ open : FieldVariants.open \cup { None },
                     high : FieldVariants.high \cup { None },
                     low : FieldVariants.low \cup { None },
                     close : FieldVariants.close \cup { None },
                     volume : FieldVariants.volume \cup { None },
                     adjusted_close : FieldVariants.adjusted_close \cup { None } ],
        index \in IndexOrders }

\* str.lower() on the column names of the tables
LowerKeepsCase(name) == name

Lower(name) ==
    CASE name = "Open" -> "open"
      [] name = "High" -> "high"
      [] name = "LOW" -> "low"
      [] name = "Close" -> "close"
      [] name = "Volume" -> "volume"
      [] name = "Adj Close" -> "adj close"
      [] name = "Dividends" -> "dividends"
      [] OTHER -> name

\* df.rename(columns=column_mapping)
ColumnMapping(name) ==
    IF name \in { "adj close", "adj_close" } THEN "adjusted_close" ELSE name

required_columns == << "open", "high", "low", "close", "volume" >>

ColumnNames(columns) == { columns[k].name : k \in DOMAIN columns }

\* df[name], for a name the table has
ColumnOf(columns, name) == columns[CHOOSE k \in DOMAIN columns : columns[k].name = name]

\* df.sort_index(): the row positions in ascending order of the index
RECURSIVE SortedPositions(_, _)
SortedPositions(index, todo) ==
    IF todo = {} THEN << >>
    ELSE LET r == CHOOSE x \in todo : \A y \in todo : index[x] <= index[y]
         IN  << r >> \o SortedPositions(index, todo \ { r })

Reorder(values, order) == [ k \in DOMAIN order |-> values[order[k]] ]

\* the whole of _normalize_dataframe: the table it returns or the error it raises
_normalize_dataframe(df) ==
    LET renamed == [ k \in DOMAIN df.columns |->
                        [ name   |-> ColumnMapping(Lower(df.columns[k].name)),
                          values |-> df.columns[k].values ] ]
        missing_columns == SelectSeq(required_columns, LAMBDA col : col \notin ColumnNames(renamed))
        closed == IF "adjusted_close" \in ColumnNames(renamed)
                  THEN [ k \in DOMAIN renamed |->
                            IF renamed[k].name = "close"
                            THEN [ name |-> "close", values |-> ColumnOf(renamed, "adjusted_close").values ]
                            ELSE renamed[k] ]
                  ELSE renamed
        order == SortedPositions(df.index, DOMAIN df.index)
    IN  IF missing_columns # << >>
        THEN [ error |-> "MissingColumns", missing |-> missing_columns ]
        ELSE [ columns |-> [ k \in DOMAIN required_columns |->
                               [ name   |-> required_columns[k],
                                 values |-> Reorder(ColumnOf(closed, required_columns[k]).values, order) ] ],
               index   |-> Reorder(df.index, order) ]

InitNorm ==
    /\ norm_df \in SuppliedTables
    /\ norm_result = None
    /\ norm_pc = "call"
    /\ IdleNormFrame

NormalizeDataframe ==
    /\ norm_pc = "call"
    /\ norm_result' = _normalize_dataframe(norm_df)
    /\ norm_pc' = "done"
    /\ UNCHANGED norm_df
    /\ UNCHANGED normFrame

NextNorm == NormalizeDataframe

SpecNorm == InitNorm /\ [][NextNorm]_vars

\* ---- the claim about _normalize_dataframe ----------------------------------

\* the column of the supplied table that holds the field, whatever its case
SuppliedAs(field) ==
    { k \in DOMAIN norm_df.columns : norm_df.columns[k].name \in FieldVariants[field] }

RequiredFields == { "open", "high", "low", "close", "volume" }

\* the field that fills a column of the result
SourceField(field) ==
    IF field = "close" /\ SuppliedAs("adjusted_close") # {} THEN "adjusted_close" ELSE field

\* C15: _normalize_dataframe fails with MissingColumns exactly when one of
\* open, high, low, close, volume is supplied under no spelling; otherwise the
\* result has exactly these five columns, its rows are in ascending order of
\* timestamp, and every cell holds the supplied value of its field and
\* timestamp, close taking the adjusted close when that was supplied.
C15_NormalizeContract ==
    norm_pc = "done" =>
        /\ "error" \in DOMAIN norm_result <=> \E f \in RequiredFields : SuppliedAs(f) = {}
        /\ "error" \in DOMAIN norm_result => norm_result.error = "MissingColumns"
        /\ "error" \notin DOMAIN norm_result =>
              /\ [ k \in DOMAIN norm_result.columns |-> norm_result.columns[k].name ] = required_columns
              /\ \A r \in 1..(Len(norm_result.index) - 1) : norm_result.index[r] < norm_result.index[r + 1]
              /\ { norm_result.index[r] : r \in DOMAIN norm_result.index }
                    = { norm_df.index[r] : r \in DOMAIN norm_df.index }
              /\ \A k \in DOMAIN norm_result.columns : \A r \in DOMAIN norm_result.index :
                    \E c \in SuppliedAs(SourceField(norm_result.columns[k].name)) :
                       norm_result.columns[k].values[r]
                          = CellValue(norm_df.columns[c].name, norm_result.index[r])

\* a table with capitalised names, an adjusted close and unsorted rows was normalised
C15_Witness ==
    /\ norm_pc = "done"
    /\ "error" \notin DOMAIN norm_result
    /\ ColumnNames(norm_df.columns) =
          { "Open", "High", "LOW", "Close", "Volume", "Adj Close", "Dividends" }
    /\ norm_df.index = << 3, 1, 2 >>
    /\ norm_result.columns[4].values = << 61, 62, 63 >>

(***************************************************************************)
(* H3Manager: the resolution of the index of a correlation                 *)
(***************************************************************************)

\* correlations in hundredths, and a not-a-number one
H3Correlations == (-100..100) \cup { NaN }

\* what a caller passes as `resolution`: nothing, or an H3 resolution
RequestedResolutions == { "None", "r0", "r7", "r15" }

ResolutionOf(requested) == CASE requested = "r0" -> 0 [] requested = "r7" -> 7 [] requested = "r15" -> 15

\* the thresholds compare as False against a NaN
_get_resolution_signed(correlation) ==
    IF correlation = NaN THEN 5
    ELSE IF correlation >= 90 THEN 9
    ELSE IF correlation >= 80 THEN 8
    ELSE IF correlation >= 70 THEN 7
    ELSE IF correlation >= 60 THEN 6
    ELSE 5

_get_resolution_for_correlation(correlation) ==
    LET abs_corr == IF correlation = NaN THEN NaN ELSE AbsInt(correlation)
    IN  IF abs_corr = NaN THEN 5
        ELSE IF abs_corr >= 90 THEN 9
        ELSE IF abs_corr >= 80 THEN 8
        ELSE IF abs_corr >= 70 THEN 7
        ELSE IF abs_corr >= 60 THEN 6
        ELSE 5

InitH3 ==
    /\ h3_correlation \in H3Correlations
    /\ h3_requested \in RequestedResolutions
    /\ h3_resolution = None
    /\ h3_pc = "call"
    /\ IdleH3Frame

\* if resolution is None: resolution = self._get_resolution_for_correlation(correlation)
AdaptiveResolution ==
    /\ h3_pc = "call"
    /\ h3_requested = "None"
    /\ h3_resolution' = [ resolution |-> _get_resolution_for_correlation(h3_correlation) ]
    /\ h3_pc' = "index"
    /\ UNCHANGED << h3_correlation, h3_requested >>
    /\ UNCHANGED h3Frame

\* the caller's resolution is used as it is
RequestedResolution ==
    /\ h3_pc = "call"
    /\ h3_requested # "None"
    /\ h3_resolution' = [ resolution |-> ResolutionOf(h3_requested) ]
    /\ h3_pc' = "index"
    /\ UNCHANGED << h3_correlation, h3_requested >>
    /\ UNCHANGED h3Frame

NextH3 == AdaptiveResolution \/ RequestedResolution

SpecH3 == InitH3 /\ [][NextH3]_vars

\* ---- the claim about the adaptive resolution -------------------------------

\* |c| in hundredths, for a number c
Magnitude(c) == IF c < 0 THEN 0 - c ELSE c

\* the resolution the table of the claim gives |c| = m
TableResolution(m) ==
    CASE m >= 90 -> 9
      [] m >= 80 /\ m < 90 -> 8
      [] m >= 70 /\ m < 80 -> 7
      [] m >= 60 /\ m < 70 -> 6
      [] OTHER -> 5

\* C16: the adaptive resolution is the table's value for |correlation|; so it
\* is the resolution of -correlation too, no smaller than the resolution of
\* any correlation of smaller magnitude, and within 0..15.
C16_AdaptiveResolution ==
    (h3_pc = "index" /\ h3_requested = "None" /\ h3_correlation # NaN) =>
        /\ h3_resolution.resolution = TableResolution(Magnitude(h3_correlation))
        /\ h3_resolution.resolution = _get_resolution_for_correlation(0 - h3_correlation)
        /\ \A d \in -100..100 :
              Magnitude(d) <= Magnitude(h3_correlation) =>
                 _get_resolution_for_correlation(d) <= h3_resolution.resolution
        /\ h3_resolution.resolution \in 0..15

\* the resolution of a strong negative correlation was chosen adaptively
C16_Witness ==
    /\ h3_pc = "index" /\ h3_requested = "None"
    /\ h3_correlation = -85
    /\ h3_resolution.resolution = 8

(***************************************************************************)
(* BacktestEngine.run_momentum_backtest and run_mean_reversion_backtest    *)
(***************************************************************************)

\* the longest sample
MaxPeriods == 5

\* the (close_a, close_b) rows: spreads 0, 0, 1 and -5, both prices rising
\* from the first row to the second
SignalRows == { << 5, 5 >>, << 6, 6 >>, << 6, 5 >>, << 1, 6 >> }
Lookbacks == { 2, 3 }
SignalThresholds == { 5, 10 }

\* the last L values of sp up to t: the window of rolling(L) at t
RollingWindow(sp, t, L) == SubSeq(sp, t - L + 1, t)

\* the rolling z-score is NaN in the first L - 1 periods, and where the
\* window is constant (0 / 0)
RollingZIsNaN(sp, t, L) == t < L \/ SumSqDev(RollingWindow(sp, t, L)) = 0

\* z_score[t] > e / 10, with z = (spread - rolling mean) / rolling std (ddof = 1)
RollingZGreater(sp, t, L, e) ==
    /\ ~ RollingZIsNaN(sp, t, L)
    /\ SqGt(10 * (L * sp[t] - SumSeq(RollingWindow(sp, t, L))), L - 1,
            e, SumSqDev(RollingWindow(sp, t, L)))

\* z_score[t] < e / 10
RollingZLess(sp, t, L, e) ==
    /\ ~ RollingZIsNaN(sp, t, L)
    /\ SqGt(e, SumSqDev(RollingWindow(sp, t, L)),
            10 * (L * sp[t] - SumSeq(RollingWindow(sp, t, L))), L - 1)

\* the second mask taken against the positive threshold
MeanReversionSignalSignSlip(sp, t, L, e) ==
    LET zeros == 0
        short == IF RollingZGreater(sp, t, L, e) THEN -1 ELSE zeros
    IN  IF RollingZLess(sp, t, L, e) THEN 1 ELSE short

\* signals = 0; signals[z_score > entry_threshold] = -1;
\* signals[z_score < -entry_threshold] = 1
MeanReversionSignal(sp, t, L, e) ==
    LET zeros == 0
        short == IF RollingZGreater(sp, t, L, e) THEN -1 ELSE zeros
    IN  IF RollingZLess(sp, t, L, -e) THEN 1 ELSE short

\* ((momentum_a > 0) & (momentum_b > 0)).astype(int), momentum being
\* pct_change(L): NaN in the first L periods, and NaN > 0 is False
MomentumSignal(al, t, L) ==
    IF t > L /\ al[t][1] > al[t - L][1] /\ al[t][2] > al[t - L][2] THEN 1 ELSE 0

\* signals.diff().abs().sum(): the first difference is NaN and is skipped
SumAbsDiff(s) == SumSeq([ k \in 1..(Len(s) - 1) |-> Abs(s[k + 1] - s[k]) ])

\* aligned[col].pct_change() at row t >= 2, as << numerator, denominator >>
SimpleReturn(al, col, t) == Frac(al[t][col] - al[t - 1][col], al[t - 1][col])

\* the signal taken without the shift
MomentumReturnNoShift(sig, al, t) ==
    IF t = 1 THEN << >>
    ELSE FracMul(Frac(sig[t], 1),
                 FracMul(FracAdd(SimpleReturn(al, 1, t), SimpleReturn(al, 2, t)), Frac(1, 2)))

\* signals.shift(1) * (returns_a + returns_b) / 2 at row t: the shifted
\* signal and both returns are NaN in the first row
MomentumReturn(sig, al, t) ==
    IF t = 1 THEN << >>
    ELSE FracMul(Frac(sig[t - 1], 1),
                 FracMul(FracAdd(SimpleReturn(al, 1, t), SimpleReturn(al, 2, t)), Frac(1, 2)))

\* signals.shift(1) * (returns_a - returns_b) at row t
MeanReversionReturn(sig, al, t) ==
    IF t = 1 THEN << >>
    ELSE FracMul(Frac(sig[t - 1], 1),
                 Reduce(FracSub(SimpleReturn(al, 1, t), SimpleReturn(al, 2, t))))

InitSig ==
    /\ backtest \in { "momentum", "mean_reversion" }
    /\ \E n \in 1..MaxPeriods : sig_price_data \in [ 1..n -> SignalRows ]
    /\ lookback_period \in Lookbacks
    /\ sig_entry_threshold \in SignalThresholds
    /\ sig_aligned = << >>
    /\ signals = << >>
    /\ sig_total_trades = None
    /\ sig_strategy_returns = << >>
    /\ sig_pc = "align"
    /\ IdleSigFrame

\* aligned = pd.DataFrame({"price_a": ..., "price_b": ...}).dropna()
AlignPrices ==
    /\ sig_pc = "align"
    /\ sig_aligned' = DropNa([ k \in DOMAIN sig_price_data |-> sig_price_data[k][1] ],
                             [ k \in DOMAIN sig_price_data |-> sig_price_data[k][2] ], 1)
    /\ sig_pc' = "signals"
    /\ UNCHANGED << backtest, sig_price_data, lookback_period, sig_entry_threshold, signals,
                    sig_total_trades, sig_strategy_returns >>
    /\ UNCHANGED sigFrame

MomentumSignals ==
    /\ sig_pc = "signals" /\ backtest = "momentum"
    /\ signals' = [ t \in DOMAIN sig_aligned |-> MomentumSignal(sig_aligned, t, lookback_period) ]
    /\ sig_pc' = "metrics"
    /\ UNCHANGED << backtest, sig_price_data, lookback_period, sig_entry_threshold, sig_aligned,
                    sig_total_trades, sig_strategy_returns >>
    /\ UNCHANGED sigFrame

MeanReversionSignals ==
    /\ sig_pc = "signals" /\ backtest = "mean_reversion"
    /\ signals' = [ t \in DOMAIN sig_aligned |->
                      MeanReversionSignal(SpreadOf(sig_aligned), t, lookback_period,
                                          sig_entry_threshold) ]
    /\ sig_pc' = "metrics"
    /\ UNCHANGED << backtest, sig_price_data, lookback_period, sig_entry_threshold, sig_aligned,
                    sig_total_trades, sig_strategy_returns >>
    /\ UNCHANGED sigFrame

\* total_trades = signals.diff().abs().sum(); strategy_returns is taken
\* from the signals and the aligned prices
SignalMetrics ==
    /\ sig_pc = "metrics"
    /\ sig_total_trades' = SumAbsDiff(signals)
    /\ sig_strategy_returns' =
          [ t \in DOMAIN sig_aligned |->
              IF backtest = "momentum" THEN MomentumReturn(signals, sig_aligned, t)
                                       ELSE MeanReversionReturn(signals, sig_aligned, t) ]
    /\ sig_pc' = "done"
    /\ UNCHANGED << backtest, sig_price_data, lookback_period, sig_entry_threshold, sig_aligned,
                    signals >>
    /\ UNCHANGED sigFrame

NextSig == AlignPrices \/ MomentumSignals \/ MeanReversionSignals \/ SignalMetrics

SpecSig == InitSig /\ [][NextSig]_vars

\* ---- the claims about the two signal backtests -----------------------------

\* the periods whose signal differs from the signal of the period before
SignalChanges == { t \in 2..Len(signals) : signals[t] # signals[t - 1] }

\* C19: total_trades of the momentum and of the mean-reversion backtest is
\* the number of periods t >= 1 whose signal differs from the signal of t-1.
C19_TradesAreSignalChanges ==
    sig_pc = "done" => sig_total_trades = Cardinality(SignalChanges)

\* C20: the mean-reversion signal of a period is -1 exactly when its rolling
\* z-score is above the entry threshold, +1 exactly when it is below minus
\* the threshold, and 0 otherwise, the warm-up periods included.
C20_SignalFromZScore ==
    (backtest = "mean_reversion" /\ sig_pc \in { "metrics", "done" }) =>
        \A t \in DOMAIN signals :
            LET sp == SpreadOf(sig_aligned)
                above == RollingZGreater(sp, t, lookback_period, sig_entry_threshold)
                below == RollingZLess(sp, t, lookback_period, 0 - sig_entry_threshold)
            IN  /\ signals[t] = -1 <=> above
                /\ signals[t] = 1 <=> below
                /\ signals[t] = 0 <=> (~ above /\ ~ below)
                /\ t < lookback_period => signals[t] = 0

\* a sample whose signal goes from short to long in consecutive periods after
\* the warm-up
C20_Witness ==
    /\ backtest = "mean_reversion" /\ sig_pc = "done"
    /\ lookback_period = 3
    /\ \E t \in 4..Len(signals) : signals[t - 1] = -1 /\ signals[t] = 1
    /\ signals[1] = 0 /\ signals[2] = 0

\* the momentum of column col over the L periods up to t, defined from
\* period L + 1 on
MomentumDefined(t, L) == t - L >= 1
Momentum(al, col, t, L) == Frac(al[t][col] - al[t - L][col], al[t - L][col])

\* (returns_a + returns_b) / 2 at row t >= 2, over the common denominator
AverageReturn(al, t) ==
    Frac((al[t][1] - al[t - 1][1]) * al[t - 1][2] + (al[t][2] - al[t - 1][2]) * al[t - 1][1],
         2 * al[t - 1][1] * al[t - 1][2])

\* C21: in the momentum backtest the signal of a period is 1 exactly when
\* the lookback-period momentum of both instruments is defined and strictly
\* positive and 0 otherwise, and the strategy return of a period is the
\* signal of the period before times the average of the two simple returns.
C21_MomentumSignalAndReturn ==
    (backtest = "momentum" /\ sig_pc = "done") =>
        /\ \A t \in DOMAIN signals :
              /\ signals[t] \in { 0, 1 }
              /\ signals[t] = 1 <=>
                    /\ MomentumDefined(t, lookback_period)
                    /\ FracLt(Frac(0, 1), Momentum(sig_aligned, 1, t, lookback_period))
                    /\ FracLt(Frac(0, 1), Momentum(sig_aligned, 2, t, lookback_period))
        /\ Len(sig_strategy_returns) = Len(signals)
        /\ \A t \in 2..Len(signals) :
              /\ sig_strategy_returns[t] # << >>
              /\ FracEq(sig_strategy_returns[t],
                        Frac(signals[t - 1] * AverageReturn(sig_aligned, t)[1],
                             AverageReturn(sig_aligned, t)[2]))

\* a momentum run that was long in one period and earned a non-zero return in
\* the next, and was flat again afterwards
C21_Witness ==
    /\ backtest = "momentum" /\ sig_pc = "done"
    /\ \E t \in 2..Len(signals) :
          /\ signals[t - 1] = 1 /\ signals[t] = 0
          /\ sig_strategy_returns[t] # << >>
          /\ sig_strategy_returns[t][1] # 0

(***************************************************************************)
(* CorrelationCalculator.calculate_rolling_correlation                     *)
(***************************************************************************)

\* the longest series
MaxRoll == 4

\* what the two series hold at a label
RollValuesA == { 1, 2, NaN }
RollValuesB == { 1, 3 }
Windows == { 2, 3 }
MethodNames == { "pearson", "spearman", "kendall" }

\* the test taken with <=
TooFewAlignedInclusive(rows, window) == Len(rows) <= window

\* if len(aligned) < window
TooFewAligned(rows, window) == Len(rows) < window

\* aligned["a"].rolling(window).corr(aligned["b"]) at row t: NaN in the first
\* window - 1 rows and for a constant window
RollingPearsonAt(rows, t, window) ==
    IF t < window \/ IsNa(Pearsonr(RollingWindow(rows, t, window))) THEN NaN
    ELSE Pearsonr(RollingWindow(rows, t, window)).correlation

\* rolling(window).apply(lambda x: spearmanr(x, aligned["b"].loc[x.index])[0])
\* at row t: the function is applied to full windows only
RollingSpearmanAt(rows, t, window) ==
    IF t < window \/ IsNa(Spearmanr(RollingWindow(rows, t, window))) THEN NaN
    ELSE Spearmanr(RollingWindow(rows, t, window)).correlation

InitRoll ==
    /\ \E n \in 0..MaxRoll :
          /\ roll_series_a \in [ 1..n -> RollValuesA ]
          /\ roll_series_b \in [ 1..n -> RollValuesB ]
    /\ roll_window \in Windows
    /\ roll_method \in MethodNames
    /\ roll_aligned = << >>
    /\ rolling_corr = None
    /\ roll_pc = "align"
    /\ IdleRollFrame

\* aligned = pd.DataFrame({"a": series_a, "b": series_b}).dropna()
AlignRolling ==
    /\ roll_pc = "align"
    /\ roll_aligned' = AlignSeries(roll_series_a, roll_series_b)
    /\ roll_pc' = "check"
    /\ UNCHANGED << roll_series_a, roll_series_b, roll_window, roll_method, rolling_corr >>
    /\ UNCHANGED rollFrame

\* raise ValueError("Insufficient data points: ...")
RaiseInsufficientWindow ==
    /\ roll_pc = "check"
    /\ TooFewAligned(roll_aligned, roll_window)
    /\ rolling_corr' = [ error |-> "InsufficientData" ]
    /\ roll_pc' = "done"
    /\ UNCHANGED << roll_series_a, roll_series_b, roll_window, roll_method, roll_aligned >>
    /\ UNCHANGED rollFrame

\* if method == "pearson"
RollingPearson ==
    /\ roll_pc = "check"
    /\ ~ TooFewAligned(roll_aligned, roll_window)
    /\ roll_method = "pearson"
    /\ rolling_corr' = [ series |-> [ t \in DOMAIN roll_aligned |->
                                        RollingPearsonAt(roll_aligned, t, roll_window) ] ]
    /\ roll_pc' = "done"
    /\ UNCHANGED << roll_series_a, roll_series_b, roll_window, roll_method, roll_aligned >>
    /\ UNCHANGED rollFrame

\* elif method == "spearman"
RollingSpearman ==
    /\ roll_pc = "check"
    /\ ~ TooFewAligned(roll_aligned, roll_window)
    /\ roll_method = "spearman"
    /\ rolling_corr' = [ series |-> [ t \in DOMAIN roll_aligned |->
                                        RollingSpearmanAt(roll_aligned, t, roll_window) ] ]
    /\ roll_pc' = "done"
    /\ UNCHANGED << roll_series_a, roll_series_b, roll_window, roll_method, roll_aligned >>
    /\ UNCHANGED rollFrame

\* else: raise ValueError("Unknown correlation method: ...")
RaiseUnknownMethod ==
    /\ roll_pc = "check"
    /\ ~ TooFewAligned(roll_aligned, roll_window)
    /\ roll_method \notin { "pearson", "spearman" }
    /\ rolling_corr' = [ error |-> "UnknownMethod" ]
    /\ roll_pc' = "done"
    /\ UNCHANGED << roll_series_a, roll_series_b, roll_window, roll_method, roll_aligned >>
    /\ UNCHANGED rollFrame

NextRoll ==
    \/ AlignRolling
    \/ RaiseInsufficientWindow
    \/ RollingPearson
    \/ RollingSpearman
    \/ RaiseUnknownMethod

SpecRoll == InitRoll /\ [][NextRoll]_vars

\* ---- the claim about calculate_rolling_correlation -------------------------

\* the labels at which both series hold a value
AlignedPoints ==
    Cardinality({ l \in DOMAIN roll_series_a \cap DOMAIN roll_series_b :
                    roll_series_a[l] # NaN /\ roll_series_b[l] # NaN })

SupportedMethods == { "pearson", "spearman" }

\* C23, as stated: a series is returned only for a supported method and at
\* least `window` aligned points; fewer aligned points fail with
\* InsufficientData and any other method name fails with UnknownMethod, for
\* every combination of data length and method name.
C23_RollingOutcomes ==
    roll_pc = "done" =>
        /\ "series" \in DOMAIN rolling_corr =>
              (roll_method \in SupportedMethods /\ AlignedPoints >= roll_window)
        /\ AlignedPoints < roll_window => rolling_corr = [ error |-> "InsufficientData" ]
        /\ roll_method \notin SupportedMethods => rolling_corr = [ error |-> "UnknownMethod" ]

\* C23, amended: a series is returned exactly for a supported method and at
\* least `window` aligned points; fewer aligned points fail with
\* InsufficientData whatever the method name, and another method name fails
\* with UnknownMethod when at least `window` aligned points exist.
C23_RollingOutcomesInOrder ==
    roll_pc = "done" =>
        /\ "series" \in DOMAIN rolling_corr <=>
              (roll_method \in SupportedMethods /\ AlignedPoints >= roll_window)
        /\ "series" \in DOMAIN rolling_corr =>
              /\ Len(rolling_corr.series) = AlignedPoints
              /\ \A t \in 1..(roll_window - 1) : rolling_corr.series[t] = NaN
        /\ AlignedPoints < roll_window => rolling_corr = [ error |-> "InsufficientData" ]
        /\ (AlignedPoints >= roll_window /\ roll_method \notin SupportedMethods) =>
              rolling_corr = [ error |-> "UnknownMethod" ]

\* an unknown method asked about too few aligned points
C23_Witness ==
    /\ roll_pc = "done"
    /\ roll_method = "kendall"
    /\ Len(roll_series_a) = 3
    /\ AlignedPoints = 2
    /\ roll_window = 3
    /\ rolling_corr = [ error |-> "InsufficientData" ]

(***************************************************************************)
(* H3Manager.find_clusters                                                 *)
(***************************************************************************)

\* the longest list of cell ids
MaxIndices == 5

CellIds == { "c1", "c2", "c3" }
MinimumCounts == { 0, 1, 2, 3 }

\* a dict as the sequence of its (key, value) items, in insertion order
DictKeys(d) == { d[k][1] : k \in DOMAIN d }

\* d.get(key, default)
DictGet(d, key, default) ==
    IF key \in DictKeys(d) THEN d[CHOOSE k \in DOMAIN d : d[k][1] = key][2] ELSE default

\* d[key] = value: a new key goes last, a known key keeps its place
DictSet(d, key, value) ==
    IF key \in DictKeys(d)
    THEN [ k \in DOMAIN d |-> IF d[k][1] = key THEN << key, value >> ELSE d[k] ]
    ELSE Append(d, << key, value >>)

\* the test taken with >
MeetsMinimumStrict(count, min) == count > min

\* if count >= min_correlations
MeetsMinimum(count, min) == count >= min

\* h3.k_ring(h3_index, k=1): the cell and the six cells around it, as
\* (cell, direction) with direction 0 for the cell itself
KRing(h3_index) == { << h3_index, direction >> : direction \in 0..6 }

InitCluster ==
    /\ h3_indices \in SeqsUpTo(CellIds, MaxIndices)
    /\ min_correlations \in MinimumCounts
    /\ cluster_counts = << >>
    /\ clusters = << >>
    /\ cluster_i = 1
    /\ cluster_pc = "count"
    /\ IdleClusterFrame

\* one iteration of `for h3_index in h3_indices`
CountIndex ==
    /\ cluster_pc = "count"
    /\ cluster_i <= Len(h3_indices)
    /\ cluster_counts' = DictSet(cluster_counts, h3_indices[cluster_i],
                                 DictGet(cluster_counts, h3_indices[cluster_i], 0) + 1)
    /\ cluster_i' = cluster_i + 1
    /\ UNCHANGED << h3_indices, min_correlations, clusters, cluster_pc >>
    /\ UNCHANGED clusterFrame

\* the first loop is over
CountingDone ==
    /\ cluster_pc = "count"
    /\ cluster_i > Len(h3_indices)
    /\ cluster_i' = 1
    /\ cluster_pc' = "filter"
    /\ UNCHANGED << h3_indices, min_correlations, cluster_counts, clusters >>
    /\ UNCHANGED clusterFrame

\* one iteration of `for h3_index, count in cluster_counts.items()`
FilterCluster ==
    /\ cluster_pc = "filter"
    /\ cluster_i <= Len(cluster_counts)
    /\ LET h3_index == cluster_counts[cluster_i][1]
           count == cluster_counts[cluster_i][2]
       IN  clusters' = IF MeetsMinimum(count, min_correlations)
                       THEN Append(clusters, [ h3_index |-> h3_index,
                                               correlation_count |-> count,
                                               neighbors |-> KRing(h3_index) ])
                       ELSE clusters
    /\ cluster_i' = cluster_i + 1
    /\ UNCHANGED << h3_indices, min_correlations, cluster_counts, cluster_pc >>
    /\ UNCHANGED clusterFrame

\* return clusters
ReturnClusters ==
    /\ cluster_pc = "filter"
    /\ cluster_i > Len(cluster_counts)
    /\ cluster_pc' = "done"
    /\ UNCHANGED << h3_indices, min_correlations, cluster_counts, clusters, cluster_i >>
    /\ UNCHANGED clusterFrame

NextCluster == CountIndex \/ CountingDone \/ FilterCluster \/ ReturnClusters

SpecCluster == InitCluster /\ [][NextCluster]_vars

\* ---- the claim about find_clusters -----------------------------------------

\* the positions of the input list that hold the cell id
OccurrencesOf(cell) == { i \in DOMAIN h3_indices : h3_indices[i] = cell }

FirstOccurrence(cell) == CHOOSE i \in OccurrencesOf(cell) : \A j \in OccurrencesOf(cell) : i <= j

\* the entries of the result about the cell id
EntriesOf(cell) == { k \in DOMAIN clusters : clusters[k].h3_index = cell }

\* C24: find_clusters returns exactly one entry for each distinct cell id
\* that occurs at least min_correlations times in the input and no entry for
\* any other cell id; an entry's correlation_count is the number of
\* occurrences of its cell id, and the entries are in the order of the cell
\* ids' first occurrences.
C24_ClustersByCount ==
    cluster_pc = "done" =>
        /\ \A cell \in CellIds :
              Cardinality(EntriesOf(cell)) =
                 IF OccurrencesOf(cell) # {}
                    /\ Cardinality(OccurrencesOf(cell)) >= min_correlations
                 THEN 1 ELSE 0
        /\ \A k \in DOMAIN clusters :
              /\ clusters[k].h3_index \in CellIds
              /\ clusters[k].correlation_count = Cardinality(OccurrencesOf(clusters[k].h3_index))
        /\ \A j, k \in DOMAIN clusters :
              j < k => FirstOccurrence(clusters[j].h3_index) < FirstOccurrence(clusters[k].h3_index)

\* three cell ids, the one seen first occurs too rarely, the one that
\* completes its count last was seen before the other
C24_Witness ==
    /\ cluster_pc = "done"
    /\ h3_indices = << "c3", "c2", "c1", "c1", "c2" >>
    /\ min_correlations = 2
    /\ Len(clusters) = 2
    /\ clusters[1].h3_index = "c2" /\ clusters[1].correlation_count = 2
    /\ clusters[2].h3_index = "c1"

(***************************************************************************)
(* H3Manager.correlation_to_h3_index: the pseudo-coordinates               *)
(***************************************************************************)

\* symbol pairs of the instruments the repository fetches
SymbolPairs == { << "AAPL", "MSFT" >>, << "IWM", "EFA" >>, << "BTC-USD", "USDCAD" >>,
                 << "GBPUSD=X", "USDJPY=X" >> }

\* hashlib.md5(f"{instrument_a}:{instrument_b}".encode()).hexdigest()[:16],
\* as four words of four hex digits: aaab4c35b6a5d695, 8a7f57805841d7bc,
\* 0c15f39f9b9bf6e0 and 0c2de747c998c26e
Md5Words(pair) ==
    CASE pair = << "AAPL", "MSFT" >> -> << 43691, 19509, 46757, 54933 >>
      [] pair = << "IWM", "EFA" >> -> << 35455, 22400, 22593, 55228 >>
      [] pair = << "BTC-USD", "USDCAD" >> -> << 3093, 62367, 39835, 63200 >>
      [] pair = << "GBPUSD=X", "USDJPY=X" >> -> << 3117, 59207, 51608, 49774 >>

\* int(hex8, 16) % modulus for the eight hex digits high:low
HexMod(high, low, modulus) == ((high % modulus) * (65536 % modulus) + low) % modulus

InitCoord ==
    /\ coord_pair \in SymbolPairs
    /\ coord_correlation \in -100..100
    /\ pair_hash = << >>
    /\ lat = 0
    /\ lng = 0
    /\ geo_to_h3_args = << >>
    /\ coord_pc = "hash"
    /\ IdleCoordFrame

\* pair_hash = hashlib.md5(...).hexdigest()
HashPair ==
    /\ coord_pc = "hash"
    /\ pair_hash' = Md5Words(coord_pair)
    /\ coord_pc' = "latlng"
    /\ UNCHANGED << coord_pair, coord_correlation, lat, lng, geo_to_h3_args >>
    /\ UNCHANGED coordFrame

\* lat = (int(pair_hash[:8], 16) % 180) - 90; lng = (int(pair_hash[8:16], 16) % 360) - 180
HashToLatLng ==
    /\ coord_pc = "latlng"
    /\ lat' = 100 * (HexMod(pair_hash[1], pair_hash[2], 180) - 90)
    /\ lng' = 100 * (HexMod(pair_hash[3], pair_hash[4], 360) - 180)
    /\ coord_pc' = "adjust"
    /\ UNCHANGED << coord_pair, coord_correlation, pair_hash, geo_to_h3_args >>
    /\ UNCHANGED coordFrame

\* correlation_factor = correlation * 10; lat += correlation_factor * 0.1;
\* lng += correlation_factor * 0.1
AdjustByCorrelation ==
    /\ coord_pc = "adjust"
    /\ lat' = lat + coord_correlation
    /\ lng' = lng + coord_correlation
    /\ coord_pc' = "encode"
    /\ UNCHANGED << coord_pair, coord_correlation, pair_hash, geo_to_h3_args >>
    /\ UNCHANGED coordFrame

\* h3_index = h3.geo_to_h3(lat, lng, resolution)
GeoToH3 ==
    /\ coord_pc = "encode"
    /\ geo_to_h3_args' = [ lat |-> lat, lng |-> lng ]
    /\ coord_pc' = "done"
    /\ UNCHANGED << coord_pair, coord_correlation, pair_hash, lat, lng >>
    /\ UNCHANGED coordFrame

NextCoord == HashPair \/ HashToLatLng \/ AdjustByCorrelation \/ GeoToH3

SpecCoord == InitCoord /\ [][NextCoord]_vars

\* ---- the claim about the pseudo-coordinates --------------------------------

\* C25: for every symbol pair and every correlation in [-1, 1], the
\* coordinates handed to the cell encoder after the correlation shift are
\* valid: the latitude within [-90, 90] and the longitude within [-180, 180].
C25_ValidCoordinates ==
    coord_pc = "done" =>
        /\ geo_to_h3_args.lat >= -9000 /\ geo_to_h3_args.lat <= 9000
        /\ geo_to_h3_args.lng >= -18000 /\ geo_to_h3_args.lng <= 18000

(***************************************************************************)
(* start_backtest, get_backtest_result and the worker process              *)
(***************************************************************************)

\* the most start_backtest calls
MaxStarts == 2

\* a string is kept as the sequence of its parts between hyphens
\* what uuid4() returns, as str() prints it
Uuids == { << "1f0e3dad", "9990", "4a2b", "8c3d", "0123456789ab" >>,
           << "7c9e6679", "7425", "40de", "944b", "e07fc1f90ae7" >>,
           << "ba27fdf7", "7fa3", "4560", "828f", "6346f133c522" >> }

\* what a client may pass as backtest_id: a printed uuid, its last group, or
\* some other text
RequestedIds == Uuids \cup { << u[5] >> : u \in Uuids } \cup { << "latest" >> }

\* prefix + string
Prefixed(prefix, string) == << prefix \o string[1] >> \o Tail(string)

\* f"{prefix}-{string}"
Hyphened(prefix, string) == << prefix >> \o string

\* s.split("-")
Split(string) == string

RECURSIVE HexDigits(_)
HexDigits(parts) == IF parts = << >> THEN 0 ELSE Len(Head(parts)) + HexDigits(Tail(parts))

\* UUID(text): the hyphens are dropped and 32 hex digits are required
UuidOf(text) ==
    IF HexDigits(text) = 32 THEN [ uuid |-> text ] ELSE [ error |-> "ValueError" ]

\* UUID(workflow_id.split("-")[-1])
JobId(wid) == UuidOf(<< Split(wid)[Len(Split(wid))] >>)

\* the task queue start_backtest submits to, and the one the worker polls
SubmitTaskQueue == "backtest-queue"
WorkerTaskQueue == "correlation-tasks"

\* the workflows waiting in a task queue
Waiting(queue) ==
    { id \in DOMAIN temporal_workflows :
        /\ temporal_workflows[id].task_queue = queue
        /\ temporal_workflows[id].status = "RUNNING" }

\* f[key] = value for a function kept by its graph
Put(f, key, value) == [ k \in DOMAIN f \cup { key } |-> IF k = key THEN value ELSE f[k] ]

InitWf ==
    /\ temporal_workflows = << >>
    /\ redis_keys = << >>
    /\ workflow_id = << >>
    /\ start_response = NoResponse
    /\ start_calls = 0
    /\ start_pc = "idle"
    /\ worker_running = FALSE
    /\ get_response = NoResponse
    /\ IdleWfFrame

\* client = await get_temporal_client(); workflow_id = f"backtest-{uuid4()}";
\* a failed connection is answered by the except clause
NewWorkflowId ==
    /\ start_pc \in { "idle", "returned" }
    /\ start_calls < MaxStarts
    /\ start_calls' = start_calls + 1
    /\ \E connected \in BOOLEAN :
          IF connected
          THEN /\ \E uuid \in Uuids :
                     /\ Hyphened("backtest", uuid) \notin DOMAIN temporal_workflows
                     /\ workflow_id' = Hyphened("backtest", uuid)
               /\ start_response' = NoResponse
               /\ start_pc' = "start"
          ELSE /\ workflow_id' = << >>
               /\ start_response' = [ error |-> 500 ]
               /\ start_pc' = "returned"
    /\ UNCHANGED << temporal_workflows, redis_keys, worker_running, get_response >>
    /\ UNCHANGED wfFrame

\* handle = await client.start_workflow(..., id=workflow_id, task_queue="backtest-queue")
StartWorkflow ==
    /\ start_pc = "start"
    /\ temporal_workflows' = Put(temporal_workflows, workflow_id,
                                 [ task_queue |-> SubmitTaskQueue, status |-> "RUNNING" ])
    /\ start_pc' = "store"
    /\ UNCHANGED << redis_keys, workflow_id, start_response, start_calls, worker_running,
                    get_response >>
    /\ UNCHANGED wfFrame

\* await redis.setex(f"backtest:{workflow_id}", 86400, str(handle.id)); a
\* failed write is answered by the except clause
StoreWorkflowId ==
    /\ start_pc = "store"
    /\ \E stored_ok \in BOOLEAN :
          IF stored_ok
          THEN /\ redis_keys' = Put(redis_keys, Prefixed("backtest:", workflow_id), workflow_id)
               /\ start_pc' = "respond"
               /\ UNCHANGED start_response
          ELSE /\ start_response' = [ error |-> 500 ]
               /\ start_pc' = "returned"
               /\ UNCHANGED redis_keys
    /\ UNCHANGED << temporal_workflows, workflow_id, start_calls, worker_running, get_response >>
    /\ UNCHANGED wfFrame

\* return BacktestJobResponse(backtest_id=UUID(workflow_id.split("-")[-1]),
\* status="queued", ...); except Exception: raise HTTPException(500)
ReturnJobResponse ==
    /\ start_pc = "respond"
    /\ start_response' = IF "error" \in DOMAIN JobId(workflow_id)
                         THEN [ error |-> 500 ]
                         ELSE [ backtest_id |-> JobId(workflow_id).uuid, status |-> "queued" ]
    /\ start_pc' = "returned"
    /\ UNCHANGED << temporal_workflows, redis_keys, workflow_id, start_calls, worker_running,
                    get_response >>
    /\ UNCHANGED wfFrame

\* the answer of get_backtest_result to a workflow status
StatusAnswer(status) ==
    CASE status = "COMPLETED" -> "completed"
      [] status = "RUNNING" -> "running"
      [] status = "FAILED" -> "failed"
      [] OTHER -> "unknown"

\* get_backtest_result(backtest_id)
GetBacktestResult ==
    /\ \E backtest_id \in RequestedIds :
          LET workflow_id_key == Hyphened("backtest:backtest", backtest_id)
              wid == IF workflow_id_key \in DOMAIN redis_keys
                     THEN redis_keys[workflow_id_key]
                     ELSE Hyphened("backtest", backtest_id)
          IN  get_response' =
                 IF "error" \in DOMAIN UuidOf(backtest_id)
                 THEN [ backtest_id |-> backtest_id, error |-> 400 ]
                 ELSE IF wid \notin DOMAIN temporal_workflows
                 THEN [ backtest_id |-> backtest_id, workflow_id |-> wid, error |-> 404 ]
                 ELSE [ backtest_id |-> backtest_id, workflow_id |-> wid,
                        status |-> StatusAnswer(temporal_workflows[wid].status) ]
    /\ UNCHANGED << temporal_workflows, redis_keys, workflow_id, start_response, start_calls,
                    start_pc, worker_running >>
    /\ UNCHANGED wfFrame

\* worker.py main: connect, then worker.run() polls task_queue and runs the
\* workflow of each task it is handed, to completion or failure
WorkerMain ==
    /\ IF ~ worker_running
       THEN /\ worker_running' = TRUE
            /\ UNCHANGED temporal_workflows
       ELSE /\ UNCHANGED worker_running
            /\ IF Waiting(WorkerTaskQueue) = {}
               THEN UNCHANGED temporal_workflows
               ELSE \E id \in Waiting(WorkerTaskQueue) :
                       \E outcome \in { "COMPLETED", "FAILED" } :
                          temporal_workflows' =
                             Put(temporal_workflows, id,
                                 [ task_queue |-> WorkerTaskQueue, status |-> outcome ])
    /\ UNCHANGED << redis_keys, workflow_id, start_response, start_calls, start_pc, get_response >>
    /\ UNCHANGED wfFrame

NextWf ==
    \/ NewWorkflowId
    \/ StartWorkflow
    \/ StoreWorkflowId
    \/ ReturnJobResponse
    \/ GetBacktestResult
    \/ WorkerMain

SpecWf == InitWf /\ [][NextWf]_vars

\* the worker keeps running, and the API finishes the calls it has begun
SpecWfLive ==
    /\ InitWf /\ [][NextWf]_vars
    /\ WF_vars(WorkerMain)
    /\ WF_vars(StartWorkflow) /\ WF_vars(StoreWorkflowId) /\ WF_vars(ReturnJobResponse)

\* ---- the claims about the backtest jobs ------------------------------------

WorkflowIds == { Hyphened("backtest", uuid) : uuid \in Uuids }

\* the workflow has been executed
Executed(id) ==
    /\ id \in DOMAIN temporal_workflows
    /\ temporal_workflows[id].status \in { "COMPLETED", "FAILED" }

\* C26: every backtest workflow start_backtest submits is eventually picked
\* up and executed by the running worker, so that its status becomes
\* completed or failed instead of staying running forever.
C26_SubmittedIsExecuted ==
    \A id \in WorkflowIds : (id \in DOMAIN temporal_workflows) ~> Executed(id)

\* C27: whenever start_backtest has started a workflow it answers queued with
\* a backtest_id, never a failure, and get_backtest_result called with that
\* backtest_id looks up the key start_backtest stored and the workflow id it
\* started.
C27_QueuedAndAddressable ==
    (start_pc = "returned" /\ workflow_id \in DOMAIN temporal_workflows) =>
        /\ DOMAIN start_response = { "backtest_id", "status" }
        /\ start_response.status = "queued"
        /\ Hyphened("backtest:backtest", start_response.backtest_id)
              = Prefixed("backtest:", workflow_id)
        /\ Hyphened("backtest", start_response.backtest_id) = workflow_id

(***************************************************************************)
(* ConnectionManager and handle_message                                    *)
(***************************************************************************)

\* the most connect calls
MaxConnects == 3

ClientIds == { "a", "b" }
Channels == { "x", "y" }
ChannelLists == { << >>, << "y", "x" >> }
Messages == [ action : { "subscribe", "unsubscribe", "ping" }, channels : ChannelLists ]

\* the entry a removed key leaves behind in the dict's table
Dummy == "<dummy>"

\* the entries of a dict that hold a key
LiveEntries(d) == { k \in DOMAIN d : d[k][1] # Dummy }

\* len(d)
DictLen(d) == Cardinality(LiveEntries(d))

\* the key is left in the dict
DictPopSkipped(d, key) == d

\* d.pop(key, None): the entry stays in the table as a dummy
DictPop(d, key) == [ k \in DOMAIN d |-> IF d[k][1] = key THEN << Dummy, {} >> ELSE d[k] ]

\* f without key
Remove(f, key) == [ k \in DOMAIN f \ { key } |-> f[k] ]

\* connect: both dicts get the client id, the subscriptions start empty
connect(subs, client_id) == DictSet(subs, client_id, {})

\* subscribe: if client_id in self.subscriptions: ....add(channel)
subscribe(subs, client_id, channel) ==
    IF client_id \in DictKeys(subs)
    THEN DictSet(subs, client_id, DictGet(subs, client_id, {}) \cup { channel })
    ELSE subs

\* unsubscribe: if client_id in self.subscriptions: ....discard(channel)
unsubscribe(subs, client_id, channel) ==
    IF client_id \in DictKeys(subs)
    THEN DictSet(subs, client_id, DictGet(subs, client_id, {}) \ { channel })
    ELSE subs

\* handle_subscribe / handle_unsubscribe: for channel in channels
RECURSIVE handle_subscribe(_, _, _)
handle_subscribe(subs, client_id, channels) ==
    IF channels = << >> THEN subs
    ELSE handle_subscribe(subscribe(subs, client_id, Head(channels)), client_id, Tail(channels))

RECURSIVE handle_unsubscribe(_, _, _)
handle_unsubscribe(subs, client_id, channels) ==
    IF channels = << >> THEN subs
    ELSE handle_unsubscribe(unsubscribe(subs, client_id, Head(channels)), client_id,
                            Tail(channels))

\* handle_message: other actions are ignored
handle_message(subs, client_id, message) ==
    IF message.action = "subscribe" THEN handle_subscribe(subs, client_id, message.channels)
    ELSE IF message.action = "unsubscribe"
    THEN handle_unsubscribe(subs, client_id, message.channels)
    ELSE subs

\* `for client_id, channels in self.subscriptions.items()` from the iterator
\* state (i, len, used) up to the next send, the end of the loop or the
\* RuntimeError of a dict that changed under its iterator; the loop gives up
\* control only at `await ....send_json(message)`
RECURSIVE RunBroadcast(_, _, _, _, _, _)
RunBroadcast(subs, active, channel, i, len, used) ==
    LET later == { k \in LiveEntries(subs) : k >= i }
        next == CHOOSE k \in later : \A other \in later : k <= other
    IN  IF DictLen(subs) # used
        THEN [ pc |-> "error", i |-> i, len |-> len, error |-> "changed size" ]
        ELSE IF later = {}
        THEN [ pc |-> "done", i |-> i, len |-> len ]
        ELSE IF len = 0
        THEN [ pc |-> "error", i |-> i, len |-> len, error |-> "keys changed" ]
        ELSE IF channel \in subs[next][2] /\ subs[next][1] \in DOMAIN active
        THEN [ pc |-> "sending", i |-> next + 1, len |-> len - 1, client_id |-> subs[next][1] ]
        ELSE RunBroadcast(subs, active, channel, next + 1, len - 1, used)

RECURSIVE SumCounts(_, _)
SumCounts(f, S) ==
    IF S = {} THEN 0
    ELSE LET x == CHOOSE y \in S : TRUE IN f[x] + SumCounts(f, S \ { x })

InitWs ==
    /\ active_connections = << >>
    /\ subscriptions = << >>
    /\ connect_count = [ c \in ClientIds |-> 0 ]
    /\ last_call = NoResponse
    /\ bc_channel = None
    /\ bc_pc = "idle"
    /\ bc_i = 1
    /\ bc_len = 0
    /\ bc_used = 0
    /\ sent = << >>
    /\ IdleWsFrame

bcVars == << bc_channel, bc_pc, bc_i, bc_len, bc_used, sent >>

\* await websocket.accept(); self.active_connections[client_id] = websocket;
\* self.subscriptions[client_id] = set()
Connect ==
    /\ SumCounts(connect_count, ClientIds) < MaxConnects
    /\ \E client_id \in ClientIds :
          /\ active_connections' = Put(active_connections, client_id,
                                       [ websocket |-> connect_count[client_id] + 1 ])
          /\ subscriptions' = connect(subscriptions, client_id)
          /\ connect_count' = [ connect_count EXCEPT ![client_id] = @ + 1 ]
          /\ last_call' = [ op |-> "connect", client_id |-> client_id ]
    /\ UNCHANGED bcVars
    /\ UNCHANGED wsFrame

Disconnect ==
    /\ \E client_id \in ClientIds :
          /\ active_connections' = Remove(active_connections, client_id)
          /\ subscriptions' = DictPop(subscriptions, client_id)
          /\ last_call' = [ op |-> "disconnect", client_id |-> client_id ]
    /\ UNCHANGED connect_count
    /\ UNCHANGED bcVars
    /\ UNCHANGED wsFrame

Subscribe ==
    /\ \E client_id \in ClientIds, channel \in Channels :
          /\ subscriptions' = subscribe(subscriptions, client_id, channel)
          /\ last_call' = [ op |-> "subscribe", client_id |-> client_id ]
    /\ UNCHANGED << active_connections, connect_count >>
    /\ UNCHANGED bcVars
    /\ UNCHANGED wsFrame

Unsubscribe ==
    /\ \E client_id \in ClientIds, channel \in Channels :
          /\ subscriptions' = unsubscribe(subscriptions, client_id, channel)
          /\ last_call' = [ op |-> "unsubscribe", client_id |-> client_id ]
    /\ UNCHANGED << active_connections, connect_count >>
    /\ UNCHANGED bcVars
    /\ UNCHANGED wsFrame

HandleMessage ==
    /\ \E client_id \in ClientIds, message \in Messages :
          /\ subscriptions' = handle_message(subscriptions, client_id, message)
          /\ last_call' = [ op |-> message.action, client_id |-> client_id ]
    /\ UNCHANGED << active_connections, connect_count >>
    /\ UNCHANGED bcVars
    /\ UNCHANGED wsFrame

\* a task calls broadcast(message, channel): the loop runs to its first send
Broadcast ==
    /\ bc_pc # "sending"
    /\ \E channel \in Channels :
          LET run == RunBroadcast(subscriptions, active_connections, channel, 1,
                                  DictLen(subscriptions), DictLen(subscriptions))
          IN  /\ bc_channel' = channel
              /\ bc_used' = DictLen(subscriptions)
              /\ bc_pc' = run.pc
              /\ bc_i' = run.i
              /\ bc_len' = run.len
              /\ sent' = IF run.pc = "sending" THEN << run.client_id >> ELSE << >>
    /\ UNCHANGED << active_connections, subscriptions, connect_count, last_call >>
    /\ UNCHANGED wsFrame

\* the send returns: the loop runs on to its next send
BroadcastResume ==
    /\ bc_pc = "sending"
    /\ LET run == RunBroadcast(subscriptions, active_connections, bc_channel, bc_i, bc_len,
                               bc_used)
       IN  /\ bc_pc' = run.pc
           /\ bc_i' = run.i
           /\ bc_len' = run.len
           /\ sent' = IF run.pc = "sending" THEN Append(sent, run.client_id) ELSE sent
    /\ UNCHANGED << bc_channel, bc_used >>
    /\ UNCHANGED << active_connections, subscriptions, connect_count, last_call >>
    /\ UNCHANGED wsFrame

NextWs ==
    \/ Connect
    \/ Disconnect
    \/ Subscribe
    \/ Unsubscribe
    \/ HandleMessage
    \/ Broadcast
    \/ BroadcastResume

SpecWs == InitWs /\ [][NextWs]_vars

\* ---- the claims about the connection manager ------------------------------

\* the client ids of a dict
ClientsOf(d) == { d[k][1] : k \in LiveEntries(d) }

NoRepeat(s) == \A j, k \in DOMAIN s : s[j] = s[k] => j = k

\* C28: a broadcast completes without error, sends at most once per client
\* and only to clients that are connected and subscribed to the channel when
\* they are sent to, whatever connect, disconnect, subscribe and unsubscribe
\* calls other tasks make while it is suspended at a send.
C28_BroadcastUnderInterleaving ==
    [][ /\ bc_pc' # "error"
        /\ NoRepeat(sent')
        /\ (sent' # sent /\ sent' # << >>) =>
              LET client_id == sent'[Len(sent')]
              IN  /\ client_id \in DOMAIN active_connections
                  /\ bc_channel' \in DictGet(subscriptions, client_id, {}) ]_vars

\* C29: after every call, active_connections and subscriptions hold the same
\* client ids; a subscribe or unsubscribe (direct or by handle_message) for a
\* client id that is not connected changes nothing; a connect, also one after
\* a disconnect of the same id, leaves the client with no subscription.
C29_ManagerInvariant ==
    [][ /\ ClientsOf(subscriptions') = DOMAIN active_connections'
        /\ (/\ last_call' # last_call
            /\ last_call'.op \in { "subscribe", "unsubscribe" }
            /\ last_call'.client_id \notin DOMAIN active_connections) =>
              (/\ ClientsOf(subscriptions') = ClientsOf(subscriptions)
               /\ \A c \in ClientsOf(subscriptions) :
                     DictGet(subscriptions', c, {}) = DictGet(subscriptions, c, {})
               /\ active_connections' = active_connections)
        /\ (last_call' # last_call /\ last_call'.op = "connect") =>
              /\ last_call'.client_id \in ClientsOf(subscriptions')
              /\ DictGet(subscriptions', last_call'.client_id, { "?" }) = {} ]_vars

\* client a connected, was disconnected and has connected again, and no
\* other client was ever there
C29_Witness ==
    /\ connect_count = [ c \in ClientIds |-> IF c = "a" THEN 2 ELSE 0 ]
    /\ last_call = [ op |-> "connect", client_id |-> "a" ]
    /\ Len(subscriptions) = 2
    /\ subscriptions[1][1] = Dummy
    /\ subscriptions[2] = << "a", {} >>
    /\ DOMAIN active_connections = { "a" }

\* ---------------------------------------------------------------------------
\* DataFetcher.fetch_historical_prices (app/services/data_fetcher.py)
\*
\* Tables are those of _normalize_dataframe above.  Error messages are
\* sequences of lower-case words.  Every asset class maps to the source
\* "yfinance" (ASSET_CLASS_SOURCES), so the branches for the other sources
\* are never taken.
\* ---------------------------------------------------------------------------
MaxSymbols == 2
RequestedSymbols == { "s1", "s2" }

\* the days yfinance has prices for, per symbol
TradingDays(symbol) == IF symbol = "s1" THEN << 2, 1 >> ELSE << 3, 1, 2 >>

HistoryTable(names, index) ==
    [ columns |-> [ k \in DOMAIN names |-> Column(names[k], index) ], index |-> index ]

\* what ticker.history gives for a symbol: a table, or an exception with a text
History(symbol) ==
    { HistoryTable(<< "Open", "High", "LOW", "Close", "Volume", "Dividends" >>, TradingDays(symbol)),
      HistoryTable(<< "Open", "Close" >>, TradingDays(symbol)),
      HistoryTable(<< "Open", "High", "LOW", "Close", "Volume" >>, << >>),
      [ raised |-> << "429", "client", "error" >> ],
      [ raised |-> << "connection", "timeout" >> ] }

\* `words in message` for a run of whole words
Contains(message, words) ==
    \E i \in 0 .. Len(message) - Len(words) :
        \A j \in 1 .. Len(words) : message[i + j] = words[j]

\* YFinanceClient.get_historical_data: the table, or the ValueError it raises
get_historical_data(symbol, history) ==
    IF "raised" \in DOMAIN history
    THEN IF \/ Contains(history.raised, << "rate", "limit" >>)
            \/ Contains(history.raised, << "429" >>)
            \/ Contains(history.raised, << "too", "many" >>)
         THEN [ exc |-> "ValueError", msg |-> << "yfinance", "rate", "limit", "exceeded", "for", symbol >> ]
         ELSE [ exc |-> "ValueError",
                msg |-> << "error", "fetching", "data", "for", symbol >> \o history.raised ]
    ELSE IF history.index = << >>
    THEN [ exc |-> "ValueError", msg |-> << "no", "data", "available", "for", "symbol", symbol >> ]
    ELSE history

\* str(e).lower() of the ValueError of _normalize_dataframe
MissingColumnsMessage(df, missing) ==
    << "missing", "required", "columns" >> \o missing \o << "available", "columns" >>
        \o [ k \in DOMAIN df.columns |-> ColumnMapping(Lower(df.columns[k].name)) ]

\* every ValueError taken for a rate limit
RateLimitedOrNot(msg) == TRUE

\* the test of the `except ValueError` branch
RateLimited(msg) ==
    Contains(msg, << "rate", "limit" >>) \/ Contains(msg, << "too", "many", "requests" >>)

\* _set_cache: df.to_dict(orient="index") as JSON, a dict of dicts whose outer
\* keys are the index labels
Serialize(df) == [ kind |-> "json", outer |-> "index", table |-> df ]

NormalTable(symbol) ==
    _normalize_dataframe(HistoryTable(<< "Open", "High", "LOW", "Close", "Volume" >>, TradingDays(symbol)))

\* what Redis may hold under a symbol's key: nothing, text that is not JSON,
\* a table as a dict of dicts keyed by column first, or one as _set_cache
\* writes it
Stored(symbol) ==
    { [ kind |-> "absent" ], [ kind |-> "text" ],
      [ kind |-> "json", outer |-> "columns", table |-> NormalTable(symbol) ],
      Serialize(NormalTable(symbol)) }

\* the None of _get_from_cache
NoTable == [ none |-> TRUE ]

\* _get_from_cache: pd.DataFrame(dict of dicts) takes the outer keys as
\* columns and the inner keys as index; pd.to_datetime(index) raises on a
\* label that is no date, as a column name is; every exception gives None
get_from_cache(redis, cache, key, getRaises) ==
    IF ~redis THEN NoTable
    ELSE IF getRaises THEN NoTable
    ELSE LET cached_data == cache[key]
         IN  IF cached_data.kind = "absent" THEN NoTable
             ELSE IF cached_data.kind = "text" THEN NoTable
             ELSE IF cached_data.outer = "columns" THEN cached_data.table
             ELSE IF cached_data.table.index = << >> THEN [ columns |-> << >>, index |-> << >> ]
             ELSE NoTable

\* _set_cache: setex of the serialised table, unless there is no Redis or the
\* call raises
set_cache(redis, cache, key, df, setRaises) ==
    IF ~redis \/ setRaises THEN cache
    ELSE [ cache EXCEPT ![key] = Serialize(df) ]

\* the body of the try block after a cache miss (lines 107-109, 138):
\* the request, then the normalisation
FetchAndNormalize(symbol, history) ==
    LET df == get_historical_data(symbol, history)
    IN  IF "exc" \in DOMAIN df THEN df
        ELSE LET normal == _normalize_dataframe(df)
             IN  IF "error" \in DOMAIN normal
                 THEN [ exc |-> "ValueError", msg |-> MissingColumnsMessage(df, normal.missing) ]
                 ELSE normal

\* what Redis holds under the symbol's key, as far as the fetcher can tell
Held(symbol) == IF has_redis THEN price_cache[symbol] ELSE [ kind |-> "absent" ]

InitFetch ==
    /\ IdleFetchFrame
    /\ fetch_symbols \in UNION { [ 1 .. n -> RequestedSymbols ] : n \in 1 .. MaxSymbols }
    /\ has_redis \in BOOLEAN
    /\ price_cache \in { f \in [ RequestedSymbols -> UNION { Stored(s) : s \in RequestedSymbols } ] :
                            \A s \in RequestedSymbols : f[s] \in Stored(s) }
    /\ fetch_i = 1
    /\ fetch_pc = "loop"
    /\ fetch_results = << >>
    /\ fetch_log = << >>

\* lines 96-100: the cache holds a table for the symbol
CacheHit ==
    /\ fetch_pc = "loop"
    /\ fetch_i <= Len(fetch_symbols)
    /\ LET symbol == fetch_symbols[fetch_i]
           cached_data == get_from_cache(has_redis, price_cache, symbol, FALSE)
       IN  /\ cached_data # NoTable
           /\ fetch_results' = Put(fetch_results, symbol, cached_data)
           /\ fetch_log' = Append(fetch_log, [ symbol |-> symbol, cached |-> TRUE,
                                                held |-> Held(symbol), requests |-> << >> ])
    /\ fetch_i' = fetch_i + 1
    /\ UNCHANGED << fetch_symbols, price_cache, has_redis, fetch_pc, fetchFrame >>

\* lines 96-143 and the handlers 144-189 up to the sleep: a cache miss, the
\* request, and what its outcome leads to
FetchFromSource ==
    /\ fetch_pc = "loop"
    /\ fetch_i <= Len(fetch_symbols)
    /\ \E getRaises \in BOOLEAN, setRaises \in BOOLEAN :
       \E history \in History(fetch_symbols[fetch_i]) :
         LET symbol == fetch_symbols[fetch_i]
             cached_data == get_from_cache(has_redis, price_cache, symbol, getRaises)
             df == FetchAndNormalize(symbol, history)
             entry == [ symbol |-> symbol, cached |-> FALSE, held |-> Held(symbol), requests |-> << history >> ]
         IN  /\ cached_data = NoTable
             /\ fetch_log' = Append(fetch_log, entry)
             /\ IF "exc" \notin DOMAIN df
                THEN /\ price_cache' = set_cache(has_redis, price_cache, symbol, df, setRaises)
                     /\ fetch_results' = Put(fetch_results, symbol, df)
                     /\ fetch_i' = fetch_i + 1
                     /\ fetch_pc' = "loop"
                ELSE IF df.exc = "ValueError" /\ RateLimited(df.msg)
                THEN /\ fetch_pc' = "sleep"
                     /\ UNCHANGED << price_cache, fetch_results, fetch_i >>
                ELSE /\ fetch_i' = fetch_i + 1
                     /\ UNCHANGED << price_cache, fetch_results, fetch_pc >>
    /\ UNCHANGED << fetch_symbols, has_redis, fetchFrame >>

\* lines 149-181: after the minute's sleep, the one retry
RetryOnce ==
    /\ fetch_pc = "sleep"
    /\ \E setRaises \in BOOLEAN :
       \E history \in History(fetch_symbols[fetch_i]) :
         LET symbol == fetch_symbols[fetch_i]
             df == FetchAndNormalize(symbol, history)
             n == Len(fetch_log)
         IN  /\ fetch_log' = [ fetch_log EXCEPT ![n].requests = Append(@, history) ]
             /\ IF "exc" \notin DOMAIN df
                THEN /\ price_cache' = set_cache(has_redis, price_cache, symbol, df, setRaises)
                     /\ fetch_results' = Put(fetch_results, symbol, df)
                ELSE UNCHANGED << price_cache, fetch_results >>
    /\ fetch_i' = fetch_i + 1
    /\ fetch_pc' = "loop"
    /\ UNCHANGED << fetch_symbols, has_redis, fetchFrame >>

\* line 191
ReturnPrices ==
    /\ fetch_pc = "loop"
    /\ fetch_i > Len(fetch_symbols)
    /\ fetch_pc' = "returned"
    /\ UNCHANGED << fetch_symbols, price_cache, has_redis, fetch_i, fetch_results, fetch_log, fetchFrame >>

NextFetch == CacheHit \/ FetchFromSource \/ RetryOnce \/ ReturnPrices

SpecFetch == InitFetch /\ [][NextFetch]_vars

\* ---- the claim about fetch_historical_prices --------------------------------

\* an upstream failure that reports rate limiting
RateLimitError(history) ==
    /\ "raised" \in DOMAIN history
    /\ \E k \in DOMAIN history.raised : history.raised[k] \in { "429", "rate", "many" }

\* a table the upstream gave that has rows and every required field
Usable(history) ==
    /\ "raised" \notin DOMAIN history
    /\ history.index # << >>
    /\ \A f \in RequiredFields :
          \E k \in DOMAIN history.columns : history.columns[k].name \in FieldVariants[f]

\* the symbol's handling ended with a table
Obtained(entry) ==
    entry.cached \/ (entry.requests # << >> /\ Usable(entry.requests[Len(entry.requests)]))

\* the table that handling gives the symbol
TableOf(entry) ==
    IF entry.cached THEN entry.held.table
    ELSE _normalize_dataframe(entry.requests[Len(entry.requests)])

\* the handlings that are over
Handled == 1 .. (IF fetch_pc = "sleep" THEN Len(fetch_log) - 1 ELSE Len(fetch_log))

\* C30: the symbols are handled one by one in order.  A cache hit makes no
\* upstream request and gives the cached table; a miss makes one request, and
\* a second one only when the first failed with a rate-limit error, never a
\* third.  The call always returns, having handled every symbol, and a symbol
\* is in the result exactly when one of its handlings ended with a cached or a
\* normalised table; its table is that of its last such handling, whatever
\* happened to the other symbols.
C30_PerSymbolHandling ==
    /\ Len(fetch_log) <= Len(fetch_symbols)
    /\ \A k \in DOMAIN fetch_log :
          LET entry == fetch_log[k]
          IN  /\ entry.symbol = fetch_symbols[k]
              /\ entry.cached => (entry.requests = << >> /\ entry.held.kind = "json")
              /\ ~entry.cached => Len(entry.requests) \in { 1, 2 }
              /\ Len(entry.requests) = 2 => RateLimitError(entry.requests[1])
    /\ \A s \in RequestedSymbols :
          LET got == { k \in Handled : fetch_log[k].symbol = s /\ Obtained(fetch_log[k]) }
          IN  /\ s \in DOMAIN fetch_results <=> got # {}
              /\ got # {} =>
                    fetch_results[s] = TableOf(fetch_log[CHOOSE k \in got : \A j \in got : j <= k])
    /\ fetch_pc = "returned" => Len(fetch_log) = Len(fetch_symbols)

\* s1 hit the rate limit and its retry gave a table without the required
\* columns; s2 was then served from the cache; the call returned s2 alone
C30_Witness ==
    /\ fetch_pc = "returned"
    /\ fetch_symbols = << "s1", "s2" >>
    /\ Len(fetch_log[1].requests) = 2
    /\ RateLimitError(fetch_log[1].requests[1])
    /\ "raised" \notin DOMAIN fetch_log[1].requests[2]
    /\ ~Usable(fetch_log[1].requests[2])
    /\ fetch_log[2].cached
    /\ DOMAIN fetch_results = { "s2" }

====
